---- MODULE Spec2Model ----
(***************************************************************************)
(* A model of the go-brave-search client: client construction, WebSearch  *)
(* (validation, parameter defaults, URL building) and makeRequest (the    *)
(* retry loop, the backoff select, response classification and decoding). *)
(*                                                                         *)
(* One WebSearch call on one client is followed from its invocation to    *)
(* its return.  The transport (c.http.Do) and the caller's context are    *)
(* the environment: each HTTP attempt is answered by one of the outcomes  *)
(* in TransportOutcomes, and the context may be cancelled at any moment.  *)
(*                                                                         *)
(* Spec follows a WebSearch call.  LibSpec follows one call of a package  *)
(* function on its own: NewHTTPError, the Is* helpers,                    *)
(* parseRateLimitHeaders, NewClient, applyOptions, WithConfig and         *)
(* buildRequestURL, each on arguments chosen at the start.                *)
(***************************************************************************)
EXTENDS Integers, Sequences, FiniteSets, TLC

VARIABLES
    config,         \* Client.config, the ClientConfig built by NewClient
    options,        \* the option list NewClient was called with
    transport,      \* the HTTP transport behind c.http: does it honour ctx
    pc,             \* position of the call: idle, attempt, backoff, done, panicked
    ctxDone,        \* the caller's context has been cancelled
    cancelledAt,    \* where the call was when the context was cancelled
    query,          \* WebSearch's query argument
    callerParams,   \* WebSearch's params argument, as the caller passed it
    callerObject,   \* the caller's WebSearchParams object, as it is now
    searchParams,   \* WebSearch's local copy, after defaults
    requestURL,     \* the URL built by buildRequestURL
    attempt,        \* makeRequest's loop variable
    served,         \* the outcome of every c.http.Do so far, in order
    openBodies,     \* attempts whose response body is open
    closedBodies,   \* attempts whose response body has been closed
    rateLimitOn,    \* attempts on whose response parseRateLimitHeaders ran
    result,         \* what WebSearch returned: (response, error)
    libFn,          \* the package function called on its own, "none" if none
    libArgs,        \* its arguments
    libRet,         \* what it returned
    libDone,        \* it has returned
    parked          \* the call state of the other goroutine calling WebSearch

\* the state of a call of a package function outside a WebSearch call
libVars == <<libFn, libArgs, libRet, libDone>>

\* the state of a WebSearch call and of its client
callVars == <<config, options, transport, pc, ctxDone, cancelledAt, query,
              callerParams, callerObject, searchParams, requestURL, attempt, served,
              openBodies, closedBodies, rateLimitOn, result>>

vars == <<config, options, transport, pc, ctxDone, cancelledAt, query,
          callerParams, callerObject, searchParams, requestURL, attempt, served,
          openBodies, closedBodies, rateLimitOn, result, libVars, parked>>

(***************************************************************************)
(* Bounds of the model.                                                    *)
(***************************************************************************)
\* the largest retry count a client is configured with
MaxRetriesBound == 2
\* the largest status code NewHTTPError is called with
MaxStatusCode == 600
\* the longest header value made of every combination of characters
MaxHeaderLen == 3
\* the longest option list NewClient and applyOptions are called with
MaxOptions == 3
\* the most retries of a client whose backoff times are computed
MaxBackoffRetries == 40
\* the most results in the Web section of a response
MaxResults == 3
\* the most fields of WebSearchParams in which a call differs from the
\* minimal or the full parameters
MaxFieldsSet == 2

(***************************************************************************)
(* Program constants.                                                      *)
(***************************************************************************)
DefaultCount == 20
DefaultOffset == 0
DefaultTimeout == 30
DefaultMaxRetries == 2
MaxQueryLen == 400
MaxQueryWords == 50
StatusOK == 200
StatusUnauthorized == 401
StatusForbidden == 403
StatusNotFound == 404
StatusTooManyRequests == 429
StatusServerErrorMin == 500

DefaultSafeSearch == "moderate"
DefaultCountry == "US"
DefaultSearchLang == "en"
DefaultUILang == "en-US"
DefaultUserAgent == "go-brave-search/1.0"
DefaultTextDecor == TRUE
DefaultSpellCheck == TRUE
\* strings that are cut at "/" are sequences of path tokens
BaseURL == <<"https://api.search.brave.com", "/", "res", "/", "v1">>
WebSearchEndpoint == <<"/", "web", "/", "search">>

(***************************************************************************)
(* Errors.  Every error value is a record of one shape:                    *)
(*   type    "nil", "sentinel", "APIError", "transport", "ctx", "wrapped", *)
(*           "io"                                                          *)
(*   code    APIError.StatusCode                                           *)
(*   msg     APIError.Message                                              *)
(*   err     the sentinel (or the wrapped cause)                           *)
(*   attempt for a transport error, the attempt (1-based) that produced it *)
(***************************************************************************)
NoError == [type |-> "nil", code |-> 0, msg |-> "", err |-> "", attempt |-> 0]

Sentinel(name) ==
    [type |-> "sentinel", code |-> 0, msg |-> "", err |-> name, attempt |-> 0]

ErrMissingAPIKey == Sentinel("ErrMissingAPIKey")
ErrInvalidParameters == Sentinel("ErrInvalidParameters")
ErrQueryTooLong == Sentinel("ErrQueryTooLong")
ErrEmptyQuery == Sentinel("ErrEmptyQuery")

APIError(statusCode, message, kind) ==
    [type |-> "APIError", code |-> statusCode, msg |-> message, err |-> kind,
     attempt |-> 0]

\* the error c.http.Do returned on attempt i (a *url.Error around the cause)
TransportError(i, cause) ==
    [type |-> "transport", code |-> 0, msg |-> "", err |-> cause, attempt |-> i]

\* ctx.Err() of a cancelled context
CtxErr == [type |-> "ctx", code |-> 0, msg |-> "", err |-> "context canceled",
           attempt |-> 0]

\* fmt.Errorf("failed to create gzip reader: %w", err)
GzipReaderError ==
    [type |-> "wrapped", code |-> 0, msg |-> "failed to create gzip reader",
     err |-> "gzip: invalid header", attempt |-> 0]

\* the error io.ReadAll returns on a truncated gzip stream
ReadError == [type |-> "io", code |-> 0, msg |-> "", err |-> "unexpected EOF",
              attempt |-> 0]

\* the status line a server sends with a status code (resp.Status), named
\* by the code
StatusLine(statusCode) == ToString(statusCode)

\* NewHTTPErrorKind with the server errors starting above 500
NewHTTPErrorKind_Above500(statusCode) ==
    CASE statusCode = StatusUnauthorized -> "ErrUnauthorized"
      [] statusCode = StatusForbidden -> "ErrForbidden"
      [] statusCode = StatusNotFound -> "ErrNotFound"
      [] statusCode = StatusTooManyRequests -> "ErrRateLimit"
      [] OTHER -> IF statusCode > StatusServerErrorMin
                  THEN "ErrServerError"
                  ELSE "unexpected status code"

NewHTTPErrorKind(statusCode) ==
    CASE statusCode = StatusUnauthorized -> "ErrUnauthorized"
      [] statusCode = StatusForbidden -> "ErrForbidden"
      [] statusCode = StatusNotFound -> "ErrNotFound"
      [] statusCode = StatusTooManyRequests -> "ErrRateLimit"
      [] OTHER -> IF statusCode >= StatusServerErrorMin
                  THEN "ErrServerError"
                  ELSE "unexpected status code"

NewHTTPError(resp) ==
    APIError(resp.StatusCode, resp.Status, NewHTTPErrorKind(resp.StatusCode))

IsRateLimitError(e) ==
    IF e.type = "APIError"
    THEN e.err = "ErrRateLimit" \/ e.code = StatusTooManyRequests
    ELSE e.type = "sentinel" /\ e.err = "ErrRateLimit"

\* IsAuthError that looks at the wrapped kind only
IsAuthError_KindOnly(e) ==
    IF e.type = "APIError"
    THEN e.err = "ErrUnauthorized" \/ e.err = "ErrInvalidAPIKey"
    ELSE e.type = "sentinel" /\ e.err \in {"ErrUnauthorized", "ErrInvalidAPIKey"}

IsAuthError(e) ==
    IF e.type = "APIError"
    THEN \/ e.err = "ErrUnauthorized"
         \/ e.err = "ErrInvalidAPIKey"
         \/ e.code = StatusUnauthorized
    ELSE e.type = "sentinel" /\ e.err \in {"ErrUnauthorized", "ErrInvalidAPIKey"}

IsServerError(e) ==
    IF e.type = "APIError"
    THEN e.err = "ErrServerError" \/ e.code >= StatusServerErrorMin
    ELSE e.type = "sentinel" /\ e.err = "ErrServerError"

(***************************************************************************)
(* Strings that the code measures.  A query is the pattern pat repeated n  *)
(* times; a character is named by a token, with its UTF-8 width and        *)
(* whether unicode.IsSpace holds of it.                                    *)
(***************************************************************************)
Chars == {"a", "SP", "TAB", "e_acute", "U+4E16", "U+3000"}

ByteWidth(c) ==
    CASE c \in {"a", "SP", "TAB"} -> 1
      [] c = "e_acute" -> 2
      [] c \in {"U+4E16", "U+3000"} -> 3

IsSpace(c) == c \in {"SP", "TAB", "U+3000"}

Q(pat, n) == [pat |-> pat, n |-> n]

EmptyString == Q(<<"a">>, 0)

\* the characters of a query, in order
Expand(q) ==
    [i \in 1..(Len(q.pat) * q.n) |-> q.pat[((i - 1) % Len(q.pat)) + 1]]

\* Go's len(s): the number of bytes of s
ByteLen(s) ==
    LET W(w) == Cardinality({i \in DOMAIN s : ByteWidth(s[i]) = w})
    IN  W(1) + 2 * W(2) + 3 * W(3)

\* len(strings.Fields(s)): the number of maximal runs of non-space characters
FieldsLen(s) ==
    Cardinality({i \in DOMAIN s :
                    /\ ~IsSpace(s[i])
                    /\ (i = 1 \/ IsSpace(s[i - 1]))})

\* ValidateQuery without the count of strings.Fields
ValidateQuery_NoWordLimit(q) ==
    LET s == Expand(q)
    IN  IF ByteLen(s) = 0 THEN ErrEmptyQuery
        ELSE IF ByteLen(s) > MaxQueryLen THEN ErrQueryTooLong
        ELSE NoError

\* WebSearch's two checks of the query, in the code's order
ValidateQuery(q) ==
    LET s == Expand(q)
    IN  IF ByteLen(s) = 0 THEN ErrEmptyQuery
        ELSE IF ByteLen(s) > MaxQueryLen \/ FieldsLen(s) > MaxQueryWords
             THEN ErrQueryTooLong
        ELSE NoError

(***************************************************************************)
(* WebSearchParams.  ptr is "nil" for a nil *WebSearchParams.              *)
(***************************************************************************)
ZeroParams ==
    [ptr |-> "set", Query |-> EmptyString, Country |-> "", SearchLang |-> "",
     UILang |-> "", Count |-> 0, Offset |-> 0, SafeSearch |-> "",
     Freshness |-> "", TextDecorations |-> FALSE, Spellcheck |-> FALSE,
     ResultFilter |-> "", Goggles |-> "", Units |-> "",
     ExtraSnippets |-> FALSE, Summary |-> FALSE]

NilParams == [ZeroParams EXCEPT !.ptr = "nil"]

NewWebSearchParams ==
    [ZeroParams EXCEPT !.Count = DefaultCount, !.Offset = DefaultOffset,
                       !.SafeSearch = DefaultSafeSearch,
                       !.TextDecorations = DefaultTextDecor,
                       !.Spellcheck = DefaultSpellCheck]

\* WebSearch that writes the client's default country over the caller's
ResolveParams_CountryOverridden(cfg, q, params) ==
    LET copy == IF params.ptr # "nil" THEN params ELSE ZeroParams
        p0 == [copy EXCEPT !.Query = q, !.Country = cfg.DefaultCountry]
        p2 == IF p0.SearchLang = "" THEN [p0 EXCEPT !.SearchLang = cfg.DefaultSearchLang] ELSE p0
        p3 == IF p2.UILang = "" THEN [p2 EXCEPT !.UILang = cfg.DefaultUILang] ELSE p2
        p4 == IF p3.Count = 0 THEN [p3 EXCEPT !.Count = DefaultCount] ELSE p3
        p5 == IF p4.SafeSearch = "" THEN [p4 EXCEPT !.SafeSearch = DefaultSafeSearch] ELSE p4
    IN  p5

\* WebSearch: copy the caller's params (or start empty), set the query,
\* fill the unset fields
ResolveParams(cfg, q, params) ==
    LET copy == IF params.ptr # "nil" THEN params ELSE ZeroParams
        p0 == [copy EXCEPT !.Query = q]
        p1 == IF p0.Country = "" THEN [p0 EXCEPT !.Country = cfg.DefaultCountry] ELSE p0
        p2 == IF p1.SearchLang = "" THEN [p1 EXCEPT !.SearchLang = cfg.DefaultSearchLang] ELSE p1
        p3 == IF p2.UILang = "" THEN [p2 EXCEPT !.UILang = cfg.DefaultUILang] ELSE p2
        p4 == IF p3.Count = 0 THEN [p3 EXCEPT !.Count = DefaultCount] ELSE p3
        p5 == IF p4.SafeSearch = "" THEN [p4 EXCEPT !.SafeSearch = DefaultSafeSearch] ELSE p4
    IN  p5

(***************************************************************************)
(* buildRequestURL.  The path is a sequence of tokens; the query string is *)
(* what url.Values.Encode writes: one key=value pair per key, keys in      *)
(* ascending order.  A value is written as url.QueryEscape writes it: a    *)
(* run of unreserved characters as it is, a space as "+", every other byte *)
(* as %XX.  A value is a pattern of wire tokens and a repeat count.        *)
(***************************************************************************)
HasSuffixSlash(s) == Len(s) > 0 /\ s[Len(s)] = "/"
HasPrefixSlash(s) == Len(s) > 0 /\ s[1] = "/"

JoinPath(baseURL, endpoint) ==
    IF ~HasSuffixSlash(baseURL) /\ ~HasPrefixSlash(endpoint)
    THEN baseURL \o <<"/">> \o endpoint
    ELSE baseURL \o endpoint

\* the keys of the query string in the order Encode sorts them
SortedKeys ==
    <<"count", "country", "extra_snippets", "freshness", "goggles", "offset",
      "q", "result_filter", "safesearch", "search_lang", "spellcheck",
      "summary", "text_decorations", "ui_lang", "units">>

FormatBool(b) == IF b THEN "true" ELSE "false"

Itoa(n) == ToString(n)

\* the characters of a string field: a string of unreserved characters is
\* one token, the others are cut at their reserved characters
Text(s) ==
    CASE s = "" -> <<>>
      [] s = "a b" -> <<"a", "SP", "b">>
      [] s = "a+b" -> <<"a", "+", "b">>
      [] s = "https://g.example/x" ->
            <<"https", ":", "/", "/", "g.example", "/", "x">>
      [] OTHER -> <<s>>

\* url.QueryEscape that takes "+" for an unreserved character
EscapeToken_PlusKept(t) ==
    CASE t = "SP" -> <<"+">>
      [] t = "TAB" -> <<"%09">>
      [] t = "e_acute" -> <<"%C3", "%A9">>
      [] t = "U+4E16" -> <<"%E4", "%B8", "%96">>
      [] t = "U+3000" -> <<"%E3", "%80", "%80">>
      [] t = ":" -> <<"%3A">>
      [] t = "/" -> <<"%2F">>
      [] OTHER -> <<t>>

\* url.QueryEscape of one character: the bytes it writes
EscapeToken(t) ==
    CASE t = "SP" -> <<"+">>
      [] t = "TAB" -> <<"%09">>
      [] t = "e_acute" -> <<"%C3", "%A9">>
      [] t = "U+4E16" -> <<"%E4", "%B8", "%96">>
      [] t = "U+3000" -> <<"%E3", "%80", "%80">>
      [] t = ":" -> <<"%3A">>
      [] t = "/" -> <<"%2F">>
      [] t = "+" -> <<"%2B">>
      [] OTHER -> <<t>>

RECURSIVE EscapeTokens(_)
EscapeTokens(s) ==
    IF s = <<>> THEN <<>>
    ELSE EscapeToken(Head(s)) \o EscapeTokens(Tail(s))

\* url.QueryEscape of a text given as a pattern and a repeat count
QueryEscape(q) == Q(EscapeTokens(q.pat), q.n)

\* no values.Add for the key
NoValue == Q(<<>>, 0)

\* the value Encode writes for a non-empty string, NoValue for ""
Escaped(s) == IF s = "" THEN NoValue ELSE QueryEscape(Q(Text(s), 1))

\* the values.Add calls with every guard "!= 0"
AddedValue_NonZero(params, key) ==
    CASE key = "q" -> IF ByteLen(Expand(params.Query)) # 0
                      THEN QueryEscape(params.Query) ELSE NoValue
      [] key = "country" -> Escaped(params.Country)
      [] key = "search_lang" -> Escaped(params.SearchLang)
      [] key = "ui_lang" -> Escaped(params.UILang)
      [] key = "count" -> IF params.Count # 0
                          THEN Escaped(Itoa(params.Count)) ELSE NoValue
      [] key = "offset" -> IF params.Offset # 0
                           THEN Escaped(Itoa(params.Offset)) ELSE NoValue
      [] key = "safesearch" -> Escaped(params.SafeSearch)
      [] key = "freshness" -> Escaped(params.Freshness)
      [] key = "text_decorations" -> Escaped(FormatBool(params.TextDecorations))
      [] key = "spellcheck" -> Escaped(FormatBool(params.Spellcheck))
      [] key = "result_filter" -> Escaped(params.ResultFilter)
      [] key = "goggles" -> Escaped(params.Goggles)
      [] key = "units" -> Escaped(params.Units)
      [] key = "extra_snippets" ->
            IF params.ExtraSnippets THEN Escaped("true") ELSE NoValue
      [] key = "summary" -> IF params.Summary THEN Escaped("true") ELSE NoValue

\* the values.Add calls of buildRequestURL: key -> value, NoValue for no Add
AddedValue(params, key) ==
    CASE key = "q" -> IF ByteLen(Expand(params.Query)) # 0
                      THEN QueryEscape(params.Query) ELSE NoValue
      [] key = "country" -> Escaped(params.Country)
      [] key = "search_lang" -> Escaped(params.SearchLang)
      [] key = "ui_lang" -> Escaped(params.UILang)
      [] key = "count" -> IF params.Count > 0
                          THEN Escaped(Itoa(params.Count)) ELSE NoValue
      [] key = "offset" -> IF params.Offset > 0
                           THEN Escaped(Itoa(params.Offset)) ELSE NoValue
      [] key = "safesearch" -> Escaped(params.SafeSearch)
      [] key = "freshness" -> Escaped(params.Freshness)
      [] key = "text_decorations" -> Escaped(FormatBool(params.TextDecorations))
      [] key = "spellcheck" -> Escaped(FormatBool(params.Spellcheck))
      [] key = "result_filter" -> Escaped(params.ResultFilter)
      [] key = "goggles" -> Escaped(params.Goggles)
      [] key = "units" -> Escaped(params.Units)
      [] key = "extra_snippets" ->
            IF params.ExtraSnippets THEN Escaped("true") ELSE NoValue
      [] key = "summary" -> IF params.Summary THEN Escaped("true") ELSE NoValue

EncodeValues(params) ==
    SelectSeq([i \in DOMAIN SortedKeys |->
                  [key |-> SortedKeys[i], val |-> AddedValue(params, SortedKeys[i])]],
              LAMBDA kv : kv.val # NoValue)

BuildRequestURL(cfg, endpoint, params) ==
    [path |-> JoinPath(cfg.BaseURL, endpoint), values |-> EncodeValues(params)]

NoURL == [path |-> <<>>, values |-> <<>>]

(***************************************************************************)
(* NewClient and the options.                                              *)
(***************************************************************************)
WithRetries(n) == [name |-> "WithRetries", int |-> n]
WithTimeout(seconds) == [name |-> "WithTimeout", int |-> seconds]
WithUserAgent(userAgent) == [name |-> "WithUserAgent", str |-> userAgent]
WithBaseURL(baseURL) == [name |-> "WithBaseURL", str |-> baseURL]
WithHTTPClient(client) == [name |-> "WithHTTPClient", str |-> client]
WithDefaultCountry(country) == [name |-> "WithDefaultCountry", str |-> country]
WithDefaultSearchLanguage(lang) ==
    [name |-> "WithDefaultSearchLanguage", str |-> lang]
WithDefaultUILanguage(lang) == [name |-> "WithDefaultUILanguage", str |-> lang]
\* conf is a Config, or NilConfig for WithConfig(nil)
WithConfig(conf) == [name |-> "WithConfig", cfg |-> conf]

\* the fields Config and ClientConfig share
ConfigFields ==
    {"APIKey", "BaseURL", "HTTPClient", "Timeout", "MaxRetries", "UserAgent",
     "DefaultCountry", "DefaultSearchLang", "DefaultUILang"}

\* Config{}: every field at its zero value.  ptr is "nil" for a nil *Config.
ZeroConfig ==
    [ptr |-> "set", APIKey |-> "", BaseURL |-> <<>>, HTTPClient |-> "nil",
     Timeout |-> 0, MaxRetries |-> 0, UserAgent |-> "", DefaultCountry |-> "",
     DefaultSearchLang |-> "", DefaultUILang |-> ""]

NilConfig == [ZeroConfig EXCEPT !.ptr = "nil"]

\* ApplyWithConfig that copies the key and the retry count as they are
ApplyWithConfig_CopiesAll(c, conf) ==
    IF conf.ptr = "nil" THEN c
    ELSE [c EXCEPT !.APIKey = conf.APIKey, !.MaxRetries = conf.MaxRetries]

\* the function WithConfig(conf) returns, applied to c
ApplyWithConfig(c, conf) ==
    IF conf.ptr = "nil" THEN c
    ELSE [APIKey |-> IF conf.APIKey # "" THEN conf.APIKey ELSE c.APIKey,
          BaseURL |-> IF conf.BaseURL # <<>> THEN conf.BaseURL ELSE c.BaseURL,
          HTTPClient |-> IF conf.HTTPClient # "nil" THEN conf.HTTPClient
                         ELSE c.HTTPClient,
          Timeout |-> IF conf.Timeout > 0 THEN conf.Timeout ELSE c.Timeout,
          MaxRetries |-> IF conf.MaxRetries >= 0 THEN conf.MaxRetries
                         ELSE c.MaxRetries,
          UserAgent |-> IF conf.UserAgent # "" THEN conf.UserAgent
                        ELSE c.UserAgent,
          DefaultCountry |-> IF conf.DefaultCountry # ""
                             THEN conf.DefaultCountry ELSE c.DefaultCountry,
          DefaultSearchLang |-> IF conf.DefaultSearchLang # ""
                                THEN conf.DefaultSearchLang
                                ELSE c.DefaultSearchLang,
          DefaultUILang |-> IF conf.DefaultUILang # ""
                            THEN conf.DefaultUILang ELSE c.DefaultUILang]

\* the option function opt, applied to cfg
ApplyOption(cfg, opt) ==
    CASE opt.name = "WithRetries" ->
            IF opt.int < 0
            THEN [config |-> cfg, err |-> ErrInvalidParameters]
            ELSE [config |-> [cfg EXCEPT !.MaxRetries = opt.int], err |-> NoError]
      [] opt.name = "WithTimeout" ->
            [config |-> [cfg EXCEPT !.Timeout = opt.int], err |-> NoError]
      [] opt.name = "WithUserAgent" ->
            [config |-> [cfg EXCEPT !.UserAgent = opt.str], err |-> NoError]
      [] opt.name = "WithBaseURL" ->
            [config |-> [cfg EXCEPT !.BaseURL = opt.str], err |-> NoError]
      [] opt.name = "WithHTTPClient" ->
            [config |-> [cfg EXCEPT !.HTTPClient = opt.str], err |-> NoError]
      [] opt.name = "WithDefaultCountry" ->
            [config |-> [cfg EXCEPT !.DefaultCountry = opt.str], err |-> NoError]
      [] opt.name = "WithDefaultSearchLanguage" ->
            [config |-> [cfg EXCEPT !.DefaultSearchLang = opt.str], err |-> NoError]
      [] opt.name = "WithDefaultUILanguage" ->
            [config |-> [cfg EXCEPT !.DefaultUILang = opt.str], err |-> NoError]
      [] opt.name = "WithConfig" ->
            [config |-> ApplyWithConfig(cfg, opt.cfg), err |-> NoError]

\* ApplyOptions that goes on after an option failed and reports the first
\* error at the end
RECURSIVE ApplyOptions_GoesOn(_, _)
ApplyOptions_GoesOn(cfg, opts) ==
    IF opts = <<>> THEN [config |-> cfg, err |-> NoError, invoked |-> <<>>]
    ELSE LET r == ApplyOption(cfg, Head(opts))
             rest == ApplyOptions_GoesOn(r.config, Tail(opts))
         IN  [config |-> rest.config,
              err |-> IF r.err # NoError THEN r.err ELSE rest.err,
              invoked |-> <<Head(opts)>> \o rest.invoked]

\* applyOptions: the draft after the loop, the error returned, and the
\* option functions the loop invoked, in the order of their invocation
RECURSIVE ApplyOptions(_, _)
ApplyOptions(cfg, opts) ==
    IF opts = <<>> THEN [config |-> cfg, err |-> NoError, invoked |-> <<>>]
    ELSE LET r == ApplyOption(cfg, Head(opts))
         IN  IF r.err # NoError
             THEN [config |-> r.config, err |-> r.err, invoked |-> <<Head(opts)>>]
             ELSE LET rest == ApplyOptions(r.config, Tail(opts))
                  IN  [rest EXCEPT !.invoked = <<Head(opts)>> \o rest.invoked]

DefaultConfig(apiKey) ==
    [APIKey |-> apiKey, BaseURL |-> BaseURL, Timeout |-> DefaultTimeout,
     MaxRetries |-> DefaultMaxRetries, UserAgent |-> DefaultUserAgent,
     DefaultCountry |-> DefaultCountry, DefaultSearchLang |-> DefaultSearchLang,
     DefaultUILang |-> DefaultUILang, HTTPClient |-> "nil"]

\* NewClient that applies the options before it looks at the key
NewClient_OptionsFirst(apiKey, opts) ==
    LET r == ApplyOptions(DefaultConfig(apiKey), opts)
    IN  IF r.err # NoError
        THEN [ok |-> FALSE, config |-> r.config, err |-> r.err,
              invoked |-> r.invoked]
        ELSE IF r.config.APIKey = ""
        THEN [ok |-> FALSE, config |-> r.config, err |-> ErrMissingAPIKey,
              invoked |-> r.invoked]
        ELSE [ok |-> TRUE, config |-> r.config, err |-> NoError,
              invoked |-> r.invoked]

\* ok: a client is returned (its config is config); otherwise nil is
\* returned with err.  invoked: the option functions that were invoked.
NewClient(apiKey, opts) ==
    IF apiKey = "" THEN [ok |-> FALSE, config |-> DefaultConfig(apiKey),
                         err |-> ErrMissingAPIKey, invoked |-> <<>>]
    ELSE LET r == ApplyOptions(DefaultConfig(apiKey), opts)
         IN  [ok |-> r.err = NoError, config |-> r.config, err |-> r.err,
              invoked |-> r.invoked]

(***************************************************************************)
(* The transport.  c.http.Do answers an attempt with a response, with a    *)
(* transport error and no response, or (a failed redirect) with both, the  *)
(* body then being closed already.  A response is its status code, whether *)
(* its Content-Encoding header contains "gzip", and its body:              *)
(*   json            a JSON document of the response type                  *)
(*   garbage         bytes that are neither JSON nor gzip                  *)
(*   empty           no bytes                                              *)
(*   gzip_json       the gzip stream of a JSON document                    *)
(*   gzip_garbage    the gzip stream of bytes that are not JSON            *)
(*   gzip_truncated  a gzip stream cut after its header                    *)
(***************************************************************************)
Bodies == {"json", "garbage", "empty", "gzip_json", "gzip_garbage", "gzip_truncated"}

Resp(statusCode, gzip, body) ==
    [nil |-> FALSE, StatusCode |-> statusCode, Status |-> StatusLine(statusCode),
     gzip |-> gzip, body |-> body, closed |-> FALSE]

NilResp == [nil |-> TRUE, StatusCode |-> 0, Status |-> "", gzip |-> FALSE,
            body |-> "empty", closed |-> TRUE]

\* statuses below 500 the server answers with
ClientStatuses == {200, 301, 401, 404, 429, 499}

Responses ==
    {Resp(s, g, b) : s \in ClientStatuses, g \in BOOLEAN, b \in Bodies}
    \cup {Resp(500, FALSE, "json"), Resp(503, TRUE, "empty")}

\* what c.http.Do can return on the n-th call (n = 1, 2, ...)
TransportOutcomes(n, done, tr) ==
    IF done /\ tr.honorsCtx
    THEN {[resp |-> NilResp, err |-> TransportError(n, "context canceled")]}
    ELSE {[resp |-> r, err |-> NoError] : r \in Responses}
         \cup {[resp |-> NilResp, err |-> TransportError(n, "connection refused")],
               [resp |-> [Resp(301, FALSE, "empty") EXCEPT !.closed = TRUE],
                err |-> TransportError(n, "stopped after 10 redirects")]}

(***************************************************************************)
(* The backoff time of line 287, in time.Duration's arithmetic: int64      *)
(* nanoseconds, two's complement, every result cut to 64 bits.  An int64   *)
(* is the set of the positions of its one bits; bit 63 is the sign.        *)
(***************************************************************************)
Int64Bits == 0..63

\* the bits of a natural number below 2^31
BitsOf(n) == {b \in 0..30 : (n \div (2 ^ b)) % 2 = 1}

\* x << k: bits shifted out are lost, a count of 64 or more gives 0
Shl(x, k) == {b + k : b \in x} \cap Int64Bits

\* a carry enters position pos when a lower position makes one and every
\* position between the two passes it on
CarryInto(x, y, pos) ==
    \E q \in 0..(pos - 1) :
        /\ q \in x /\ q \in y
        /\ \A r \in (q + 1)..(pos - 1) : r \in x \/ r \in y

\* x + y modulo 2^64
Add64(x, y) ==
    {pos \in Int64Bits :
        ((pos \in x) # (pos \in y)) # CarryInto(x, y, pos)}

\* x * y modulo 2^64: the sum of x << b over the one bits b of y
RECURSIVE Mul64(_, _)
Mul64(x, y) ==
    IF y = {} THEN {}
    ELSE LET b == CHOOSE b \in y : TRUE
         IN  Add64(Shl(x, b), Mul64(x, y \ {b}))

Millisecond == BitsOf(1000000)

\* time.Duration(1<<uint(attempt)) * 100 * time.Millisecond
BackoffTime(att) ==
    Mul64(Mul64(Shl(BitsOf(1), att), BitsOf(100)), Millisecond)

(***************************************************************************)
(* makeRequest: the retry loop.                                            *)
(***************************************************************************)
\* LoopBreaks with 4xx statuses retried as well
LoopBreaks_Below400(resp, respErr) ==
    respErr = NoError /\ resp.StatusCode < 400

\* line 268: the outcome that leaves the loop
LoopBreaks(resp, respErr) ==
    respErr = NoError /\ resp.StatusCode < StatusServerErrorMin

\* IsLastAttempt with the loop bound off by one
IsLastAttempt_OneEarly(att, cfg) == att + 1 >= cfg.MaxRetries

\* line 274
IsLastAttempt(att, cfg) == att = cfg.MaxRetries

\* LastAttemptError that looks at the response before the error
LastAttemptError_Reclassified(resp, respErr) ==
    IF resp.nil THEN respErr ELSE NewHTTPError(resp)

\* lines 275-278: what the last permitted attempt returns when it failed
LastAttemptError(resp, respErr) ==
    IF respErr # NoError THEN respErr ELSE NewHTTPError(resp)

\* SelectCases of a wait that does not watch ctx.Done()
SelectCases_IgnoresCtx(done) == {"timer"}

\* lines 288-293: the cases the backoff select can take.  The timer is made
\* when the select is entered, so it is not ready then: a context cancelled
\* before the timer fires is the case taken.
SelectCases(done) == IF done THEN {"ctx"} ELSE {"timer"}

(***************************************************************************)
(* makeRequest: classification and decoding of the response that left the  *)
(* loop.                                                                   *)
(***************************************************************************)
\* gzip.NewReader reads the gzip header: nil error iff there is one
GzipHeaderValid(body) == body \in {"gzip_json", "gzip_garbage", "gzip_truncated"}

\* io.ReadAll through a gzip reader
ReadAllGzip(body) ==
    CASE body = "gzip_json" -> [data |-> "json", err |-> NoError]
      [] body = "gzip_garbage" -> [data |-> "garbage", err |-> NoError]
      [] OTHER -> [data |-> "garbage", err |-> ReadError]

\* io.ReadAll of the body as it is
ReadAllPlain(body) ==
    [data |-> IF body = "json" THEN "json" ELSE "garbage", err |-> NoError]

\* JsonUnmarshalOK of a decoder that accepts any bytes
JsonUnmarshalOK_AcceptsAll(data) == data \in {"json", "garbage"}

\* json.Unmarshal into the response type: nil error iff data is a document
JsonUnmarshalOK(data) == data = "json"

\* DecodeBody that never decompresses
DecodeBody_NoGunzip(resp) ==
    IF ~JsonUnmarshalOK(ReadAllPlain(resp.body).data)
    THEN APIError(resp.StatusCode, "Failed to parse response", "ErrInvalidResponse")
    ELSE NoError

\* lines 324-357
DecodeBody(resp) ==
    IF resp.gzip /\ ~GzipHeaderValid(resp.body) THEN GzipReaderError
    ELSE LET r == IF resp.gzip THEN ReadAllGzip(resp.body)
                  ELSE ReadAllPlain(resp.body)
         IN  IF r.err # NoError THEN r.err
             ELSE IF ~JsonUnmarshalOK(r.data)
                  THEN APIError(resp.StatusCode, "Failed to parse response",
                                "ErrInvalidResponse")
             ELSE NoError

\* HandleResponse with the rate-limit headers parsed before the status is
\* looked at
HandleResponse_RateLimitFirst(resp) ==
    IF resp.StatusCode # StatusOK
    THEN IF resp.gzip /\ ~GzipHeaderValid(resp.body)
         THEN [panic |-> TRUE, err |-> NoError, rateLimit |-> TRUE]
         ELSE [panic |-> FALSE, err |-> NewHTTPError(resp), rateLimit |-> TRUE]
    ELSE [panic |-> FALSE, err |-> DecodeBody(resp), rateLimit |-> TRUE]

\* lines 303-357.  panic: the nil *gzip.Reader that gzip.NewReader returns
\* with its ignored error is read from (line 309).
HandleResponse(resp) ==
    IF resp.StatusCode # StatusOK
    THEN IF resp.gzip /\ ~GzipHeaderValid(resp.body)
         THEN [panic |-> TRUE, err |-> NoError, rateLimit |-> FALSE]
         ELSE [panic |-> FALSE, err |-> NewHTTPError(resp), rateLimit |-> FALSE]
    ELSE [panic |-> FALSE, err |-> DecodeBody(resp), rateLimit |-> TRUE]

\* fmt.Errorf("no response: %w", respErr), line 298
NoResponseError ==
    [type |-> "wrapped", code |-> 0, msg |-> "no response", err |-> "",
     attempt |-> 0]

\* WebSearch's return values for makeRequest's error
WebSearchReturn(err) ==
    IF err # NoError THEN [response |-> "nil", err |-> err]
    ELSE [response |-> "decoded", err |-> NoError]

NoResult == [response |-> "nil", err |-> NoError]

NotCancelled == [pc |-> "never", attempts |-> 0]

(***************************************************************************)
(* parseRateLimitHeaders.  A header value is the sequence of its           *)
(* characters; an absent header is the empty value, as Header.Get returns  *)
(* it.                                                                     *)
(***************************************************************************)
Digits == <<"0", "1", "2", "3", "4", "5", "6", "7", "8", "9">>

IsDigit(c) == \E i \in DOMAIN Digits : Digits[i] = c

DigitVal(c) == (CHOOSE i \in DOMAIN Digits : Digits[i] = c) - 1

\* strings.Split(s, ",")[0]
SplitFirst(s) ==
    IF \E i \in DOMAIN s : s[i] = ","
    THEN SubSeq(s, 1, (CHOOSE i \in DOMAIN s :
                          /\ s[i] = ","
                          /\ \A j \in 1..(i - 1) : s[j] # ",") - 1)
    ELSE s

RECURSIVE TrimLeft(_)
TrimLeft(s) == IF s # <<>> /\ IsSpace(Head(s)) THEN TrimLeft(Tail(s)) ELSE s

RECURSIVE TrimRight(_)
TrimRight(s) ==
    IF s # <<>> /\ IsSpace(s[Len(s)])
    THEN TrimRight(SubSeq(s, 1, Len(s) - 1)) ELSE s

\* strings.TrimSpace
TrimSpace(s) == TrimRight(TrimLeft(s))

RECURSIVE DecimalValue(_)
DecimalValue(s) ==
    IF s = <<>> THEN 0
    ELSE 10 * DecimalValue(SubSeq(s, 1, Len(s) - 1)) + DigitVal(s[Len(s)])

\* strconv.Atoi: an optional sign and at least one digit, nothing else
Atoi(s) ==
    LET signed == s # <<>> /\ s[1] \in {"+", "-"}
        digits == IF signed THEN Tail(s) ELSE s
    IN  IF digits = <<>> \/ \E i \in DOMAIN digits : ~IsDigit(digits[i])
        THEN [val |-> 0, ok |-> FALSE]
        ELSE [val |-> IF signed /\ s[1] = "-" THEN 0 - DecimalValue(digits)
                      ELSE DecimalValue(digits),
              ok |-> TRUE]

\* ParseHeader that gives the token to Atoi untrimmed
ParseHeader_NoTrim(value) ==
    IF value = <<>> THEN 0
    ELSE LET r == Atoi(SplitFirst(value))
         IN  IF r.ok THEN r.val ELSE 0

\* one of the three blocks of parseRateLimitHeaders: the field's value
ParseHeader(value) ==
    IF value = <<>> THEN 0
    ELSE LET r == Atoi(TrimSpace(SplitFirst(value)))
         IN  IF r.ok THEN r.val ELSE 0

\* header: the three X-RateLimit-* values of the response
ParseRateLimitHeaders(header) ==
    [Limit |-> ParseHeader(header.Limit),
     Remaining |-> ParseHeader(header.Remaining),
     Reset |-> ParseHeader(header.Reset)]

(***************************************************************************)
(* WebSearchResponse and its helper methods.  ptr is "nil" for a nil       *)
(* pointer; Results is the slice of the results' titles.                   *)
(***************************************************************************)
NilWeb == [ptr |-> "nil", Results |-> <<>>]
NilQuery == [ptr |-> "nil", MoreResultsAvailable |-> FALSE]
NilResponse == [ptr |-> "nil", Web |-> NilWeb, Query |-> NilQuery]

\* a nil *SearchResult, and the address of element index (from 0) of a slice
NilResult == [ptr |-> "nil", index |-> 0, elem |-> ""]
AddressOf(slice, index) ==
    [ptr |-> "set", index |-> index, elem |-> slice[index + 1]]

GetWebResults(r) ==
    IF r.ptr = "nil" \/ r.Web.ptr = "nil" THEN <<>> ELSE r.Web.Results

HasMoreResults(r) ==
    IF r.ptr = "nil" \/ r.Query.ptr = "nil" THEN FALSE
    ELSE r.Query.MoreResultsAvailable

GetResultCount(r) ==
    IF r.ptr = "nil" \/ r.Web.ptr = "nil" THEN 0 ELSE Len(r.Web.Results)

GetFirstResult(r) ==
    IF r.ptr = "nil" \/ r.Web.ptr = "nil" \/ Len(r.Web.Results) = 0
    THEN NilResult
    ELSE AddressOf(r.Web.Results, 0)

\* IsWebResultEmpty that does not look at the length of the results
IsWebResultEmpty_NilOnly(r) == r.ptr = "nil" \/ r.Web.ptr = "nil"

IsWebResultEmpty(r) ==
    r.ptr = "nil" \/ r.Web.ptr = "nil" \/ Len(r.Web.Results) = 0

(***************************************************************************)
(* Inputs.                                                                 *)
(***************************************************************************)
\* option lists that set the client's defaults, each with no retries
DefaultsOptionLists ==
    {<<WithRetries(0), WithDefaultCountry("FR")>>,
     <<WithRetries(0), WithDefaultCountry("")>>,
     <<WithRetries(0), WithDefaultSearchLanguage("fr"),
       WithDefaultUILanguage("fr-FR")>>}

OptionLists ==
    {<<>>} \cup {<<WithRetries(n)>> : n \in (-1)..MaxRetriesBound}
    \cup DefaultsOptionLists

QueryInputs ==
    {Q(<<"a">>, n) : n \in {0, 1, MaxQueryLen, MaxQueryLen + 1}}
    \cup {Q(<<"a", "SP">>, n) : n \in {MaxQueryWords, MaxQueryWords + 1}}
    \cup {Q(<<"U+4E16", "U+3000">>, n) : n \in {MaxQueryWords + 1}}
    \cup {Q(<<"e_acute">>, n) : n \in {MaxQueryLen, MaxQueryLen + 1}}
    \cup {Q(<<"SP">>, n) : n \in {1}}

ParamsInputs ==
    {NilParams, NewWebSearchParams,
     [ZeroParams EXCEPT !.Query = Q(<<"a">>, 1), !.Country = "JP",
                        !.Count = 10, !.Offset = 2, !.SafeSearch = "strict",
                        !.Freshness = "pw", !.Summary = TRUE]}

\* the fields of WebSearchParams and the values a caller gives them
ParamFields ==
    {"Query", "Country", "SearchLang", "UILang", "Count", "Offset",
     "SafeSearch", "Freshness", "TextDecorations", "Spellcheck",
     "ResultFilter", "Goggles", "Units", "ExtraSnippets", "Summary"}

FieldValues(f) ==
    CASE f = "Query" -> {EmptyString, Q(<<"a">>, 1), Q(<<"e_acute", "U+3000">>, 1)}
      [] f = "Country" -> {"", "US"}
      [] f = "SearchLang" -> {"", "en"}
      [] f = "UILang" -> {"", "en-US"}
      [] f \in {"Count", "Offset"} -> {-1, 0, 1, DefaultCount}
      [] f = "SafeSearch" -> {"", "off", "strict"}
      [] f = "Freshness" -> {"", "pd"}
      [] f = "ResultFilter" -> {"", "web"}
      [] f = "Goggles" -> {"", "a b", "a+b", "https://g.example/x"}
      [] f = "Units" -> {"", "metric"}
      [] OTHER -> BOOLEAN

\* the parameters of TestBuildRequestURL: the minimal and the full ones
MinimalParams == [ZeroParams EXCEPT !.Query = Q(<<"a", "SP">>, 2)]

AllParams ==
    [ZeroParams EXCEPT !.Query = Q(<<"a", "SP">>, 2), !.Country = "JP",
                       !.SearchLang = "ja", !.UILang = "ja-JP", !.Count = 10,
                       !.Offset = 2, !.SafeSearch = "strict",
                       !.Freshness = "pw", !.TextDecorations = TRUE,
                       !.Spellcheck = FALSE, !.ResultFilter = "news",
                       !.Goggles = "custom-goggle", !.Units = "metric",
                       !.ExtraSnippets = TRUE, !.Summary = TRUE]

\* a field and a value for it
FieldSettings == UNION {{<<f, v>> : v \in FieldValues(f)} : f \in ParamFields}

\* the parameters that differ from one of ps in at most n fields
RECURSIVE ParamsAltered(_, _)
ParamsAltered(ps, n) ==
    IF n = 0 THEN ps
    ELSE ParamsAltered({[p EXCEPT ![fv[1]] = fv[2]] : p \in ps, fv \in FieldSettings},
                       n - 1)

\* the valid queries at the limits of the length and of the token count
BoundaryQueries ==
    {Q(<<"a">>, MaxQueryLen), Q(<<"a", "SP">>, MaxQueryWords), Q(<<"SP">>, 1)}

\* the calls of WebSearch on a client built with the options opts: one
\* query with parameters that differ from the empty or the full ones in at
\* most one field on a client with its own defaults; every query with a
\* few parameters on a client that does not retry; the same but for the
\* valid queries at the limits on a client that retries
CallInputs(opts) ==
    IF opts \in DefaultsOptionLists
    THEN {Q(<<"a">>, 1)} \X ParamsAltered({ZeroParams, AllParams}, 1)
    ELSE IF NewClient("test-api-key", opts).config.MaxRetries <= 0
    THEN QueryInputs \X ParamsInputs
    ELSE (QueryInputs \ BoundaryQueries) \X ParamsInputs

(***************************************************************************)
(* The state after construction, and the steps of a call.                  *)
(***************************************************************************)
\* the variables local to one WebSearch call, as they are before the call
IdleCall ==
    [pc |-> "idle", ctxDone |-> FALSE, cancelledAt |-> NotCancelled,
     query |-> EmptyString, callerParams |-> NilParams,
     callerObject |-> NilParams,
     searchParams |-> ZeroParams, requestURL |-> NoURL, attempt |-> 0,
     served |-> <<>>, openBodies |-> {}, closedBodies |-> {},
     rateLimitOn |-> {}, result |-> NoResult]

\* the variables local to the call of the running goroutine
RunningCall ==
    [pc |-> pc, ctxDone |-> ctxDone, cancelledAt |-> cancelledAt,
     query |-> query, callerParams |-> callerParams,
     callerObject |-> callerObject,
     searchParams |-> searchParams, requestURL |-> requestURL,
     attempt |-> attempt, served |-> served, openBodies |-> openBodies,
     closedBodies |-> closedBodies, rateLimitOn |-> rateLimitOn,
     result |-> result]

\* no package function is called on its own
NoLibCall ==
    /\ libFn = "none"
    /\ libArgs = <<>>
    /\ libRet = <<>>
    /\ libDone = FALSE

Init ==
    /\ options \in OptionLists
    /\ NewClient("test-api-key", options).ok
    /\ config = NewClient("test-api-key", options).config
    /\ transport \in [honorsCtx : BOOLEAN]
    /\ pc = "idle"
    /\ ctxDone = FALSE
    /\ cancelledAt = NotCancelled
    /\ query = EmptyString
    /\ callerParams = NilParams
    /\ callerObject = NilParams
    /\ searchParams = ZeroParams
    /\ requestURL = NoURL
    /\ attempt = 0
    /\ served = <<>>
    /\ openBodies = {}
    /\ closedBodies = {}
    /\ rateLimitOn = {}
    /\ result = NoResult
    /\ parked = IdleCall
    /\ NoLibCall

\* WebSearch that keeps the country of the call as the client's default
WebSearch_WritesConfig(q, params) ==
    /\ pc = "idle"
    /\ query' = q
    /\ callerParams' = params
    \* line 139 copies *params; nothing is written through the pointer
    /\ callerObject' = params
    /\ IF ValidateQuery(q) # NoError
       THEN /\ pc' = "done"
            /\ result' = [response |-> "nil", err |-> ValidateQuery(q)]
            /\ UNCHANGED <<searchParams, requestURL>>
       ELSE /\ searchParams' = ResolveParams(config, q, params)
            /\ requestURL' = BuildRequestURL(config, WebSearchEndpoint, searchParams')
            /\ IF 0 <= config.MaxRetries
               THEN pc' = "attempt" /\ result' = result
               ELSE pc' = "done" /\ result' = WebSearchReturn(NoResponseError)
    /\ attempt' = 0
    /\ config' = [config EXCEPT
                     !.DefaultCountry = ResolveParams(config, q, params).Country]
    /\ UNCHANGED <<options, transport, ctxDone, cancelledAt, served,
                   openBodies, closedBodies, rateLimitOn, libVars, parked>>

\* WebSearch that sets the query and fills the defaults in the caller's object
WebSearch_InPlace(q, params) ==
    /\ pc = "idle"
    /\ query' = q
    /\ callerParams' = params
    /\ callerObject' = IF params.ptr = "nil" THEN params
                       ELSE ResolveParams(config, q, params)
    /\ IF ValidateQuery(q) # NoError
       THEN /\ pc' = "done"
            /\ result' = [response |-> "nil", err |-> ValidateQuery(q)]
            /\ UNCHANGED <<searchParams, requestURL>>
       ELSE /\ searchParams' = ResolveParams(config, q, params)
            /\ requestURL' = BuildRequestURL(config, WebSearchEndpoint, searchParams')
            /\ IF 0 <= config.MaxRetries
               THEN pc' = "attempt" /\ result' = result
               ELSE pc' = "done" /\ result' = WebSearchReturn(NoResponseError)
    /\ attempt' = 0
    /\ UNCHANGED <<config, options, transport, ctxDone, cancelledAt, served,
                   openBodies, closedBodies, rateLimitOn, libVars, parked>>

\* WebSearch up to the first c.http.Do: validation, defaults, URL, and the
\* entry of makeRequest's loop
WebSearch(q, params) ==
    /\ pc = "idle"
    /\ query' = q
    /\ callerParams' = params
    \* line 139 copies *params; nothing is written through the pointer
    /\ callerObject' = params
    /\ IF ValidateQuery(q) # NoError
       THEN /\ pc' = "done"
            /\ result' = [response |-> "nil", err |-> ValidateQuery(q)]
            /\ UNCHANGED <<searchParams, requestURL>>
       ELSE /\ searchParams' = ResolveParams(config, q, params)
            /\ requestURL' = BuildRequestURL(config, WebSearchEndpoint, searchParams')
            /\ IF 0 <= config.MaxRetries
               THEN pc' = "attempt" /\ result' = result
               ELSE pc' = "done" /\ result' = WebSearchReturn(NoResponseError)
    /\ attempt' = 0
    /\ UNCHANGED <<config, options, transport, ctxDone, cancelledAt, served,
                   openBodies, closedBodies, rateLimitOn, libVars, parked>>

\* one iteration of the loop: c.http.Do and what follows it, up to the
\* backoff select or to the return
Do(out) ==
    /\ pc = "attempt"
    /\ out \in TransportOutcomes(Len(served) + 1, ctxDone, transport)
    /\ served' = Append(served, out)
    /\ LET n == Len(served) + 1
           opened == IF out.resp.closed THEN {} ELSE {n}
       IN  IF LoopBreaks(out.resp, out.err)
           THEN LET h == HandleResponse(out.resp)
                IN  /\ pc' = IF h.panic THEN "panicked" ELSE "done"
                    /\ result' = IF h.panic THEN result ELSE WebSearchReturn(h.err)
                    /\ rateLimitOn' = IF h.rateLimit THEN rateLimitOn \cup {n}
                                      ELSE rateLimitOn
                    \* defer resp.Body.Close(), line 300
                    /\ openBodies' = openBodies
                    /\ closedBodies' = closedBodies \cup {n}
           ELSE IF IsLastAttempt(attempt, config)
           THEN /\ pc' = "done"
                /\ result' = WebSearchReturn(LastAttemptError(out.resp, out.err))
                /\ openBodies' = openBodies \cup opened
                /\ closedBodies' = IF out.resp.nil \/ ~out.resp.closed
                                   THEN closedBodies ELSE closedBodies \cup {n}
                /\ UNCHANGED rateLimitOn
           ELSE /\ pc' = "backoff"
                \* resp.Body.Close(), line 283
                /\ openBodies' = openBodies
                /\ closedBodies' = IF out.resp.nil THEN closedBodies
                                   ELSE closedBodies \cup {n}
                /\ UNCHANGED <<result, rateLimitOn>>
    /\ UNCHANGED <<config, options, transport, ctxDone, cancelledAt, query,
                   callerParams, callerObject, searchParams, requestURL, attempt, libVars, parked>>

\* the backoff timer fires: the loop goes on with the next attempt
BackoffElapsed ==
    /\ pc = "backoff"
    /\ "timer" \in SelectCases(ctxDone)
    /\ attempt' = attempt + 1
    /\ pc' = "attempt"
    /\ UNCHANGED <<config, options, transport, ctxDone, cancelledAt, query,
                   callerParams, callerObject, searchParams, requestURL, served, openBodies,
                   closedBodies, rateLimitOn, result, libVars, parked>>

\* the backoff select takes <-ctx.Done(): return ctx.Err()
BackoffCancelled ==
    /\ pc = "backoff"
    /\ "ctx" \in SelectCases(ctxDone)
    /\ pc' = "done"
    /\ result' = WebSearchReturn(CtxErr)
    /\ UNCHANGED <<config, options, transport, ctxDone, cancelledAt, query,
                   callerParams, callerObject, searchParams, requestURL, attempt, served,
                   openBodies, closedBodies, rateLimitOn, libVars, parked>>

\* the caller cancels the context
Cancel ==
    /\ ~ctxDone
    /\ pc \in {"idle", "attempt", "backoff"}
    /\ ctxDone' = TRUE
    /\ cancelledAt' = [pc |-> pc, attempts |-> Len(served)]
    /\ UNCHANGED <<config, options, transport, pc, query, callerParams, callerObject,
                   searchParams, requestURL, attempt, served, openBodies,
                   closedBodies, rateLimitOn, result, libVars, parked>>

Next ==
    \/ pc = "idle" /\ \E call \in CallInputs(options) : WebSearch(call[1], call[2])
    \/ \E out \in TransportOutcomes(Len(served) + 1, ctxDone, transport) : Do(out)
    \/ BackoffElapsed
    \/ BackoffCancelled
    \/ Cancel

Spec == Init /\ [][Next]_vars

(***************************************************************************)
(* Two goroutines call WebSearch on one client.  The client (its config,   *)
(* its transport) is shared; the variables of a call are local to its      *)
(* goroutine.  The scheduler runs one goroutine at a time and may switch   *)
(* between any two steps: the local variables of the goroutine that stops  *)
(* are parked, those of the other one are taken up.                        *)
(***************************************************************************)
Switch ==
    /\ parked' = RunningCall
    /\ pc' = parked.pc
    /\ ctxDone' = parked.ctxDone
    /\ cancelledAt' = parked.cancelledAt
    /\ query' = parked.query
    /\ callerParams' = parked.callerParams
    /\ callerObject' = parked.callerObject
    /\ searchParams' = parked.searchParams
    /\ requestURL' = parked.requestURL
    /\ attempt' = parked.attempt
    /\ served' = parked.served
    /\ openBodies' = parked.openBodies
    /\ closedBodies' = parked.closedBodies
    /\ rateLimitOn' = parked.rateLimitOn
    /\ result' = parked.result
    /\ UNCHANGED <<config, options, transport, libVars>>

\* the clients, the calls and the answers of the two-goroutine runs
ConcOptionLists ==
    {<<WithRetries(1)>>, <<WithRetries(0), WithDefaultCountry("FR")>>}

ConcCallInputs ==
    {Q(<<"a">>, 1)} \X {NilParams, ZeroParams, NewWebSearchParams, AllParams}

ConcOutcomes ==
    {out \in TransportOutcomes(Len(served) + 1, ctxDone, transport) :
        \/ out.resp.nil
        \/ out.resp \in {Resp(200, FALSE, "json"), Resp(401, FALSE, "json"),
                         Resp(500, FALSE, "json")}}

ConcInit == Init /\ options \in ConcOptionLists /\ transport.honorsCtx

ConcNext ==
    \/ pc = "idle" /\ \E call \in ConcCallInputs : WebSearch(call[1], call[2])
    \/ \E out \in ConcOutcomes : Do(out)
    \/ BackoffElapsed
    \/ BackoffCancelled
    \/ Cancel
    \/ Switch

ConcSpec == ConcInit /\ [][ConcNext]_vars

(***************************************************************************)
(* The package's functions called on their own, outside a WebSearch call:  *)
(* the arguments are chosen at the start, and one step is the call.        *)
(***************************************************************************)
\* the status codes and status lines of the responses NewHTTPError is given
StatusInputs == 100..MaxStatusCode
StatusLineInputs(statusCode) == {"", StatusLine(statusCode), "Custom Reason"}

HTTPErrorInputs ==
    UNION {{[Resp(sc, FALSE, "empty") EXCEPT !.Status = st] :
                st \in StatusLineInputs(sc)} : sc \in StatusInputs}

\* the sequences of at most n elements of S
RECURSIVE SeqsUpTo(_, _)
SeqsUpTo(S, n) ==
    IF n = 0 THEN {<<>>}
    ELSE LET shorter == SeqsUpTo(S, n - 1)
         IN  shorter \cup {Append(t, c) : t \in shorter, c \in S}

\* the errors the Is* helpers are given: an APIError of every status code
\* around every kind (or around none), the bare sentinels, and errors that
\* are neither
ErrorKinds ==
    {"ErrUnauthorized", "ErrForbidden", "ErrNotFound", "ErrRateLimit",
     "ErrServerError", "ErrInvalidResponse", "ErrInvalidAPIKey",
     "unexpected status code", ""}

ErrorInputs ==
    {APIError(sc, StatusLine(sc), k) : sc \in StatusInputs, k \in ErrorKinds}
    \cup {Sentinel(k) : k \in ErrorKinds \ {"unexpected status code", ""}}
    \cup {CtxErr, ReadError, GzipReaderError, TransportError(1, "connection refused")}

\* the header values parseRateLimitHeaders is given: every value of up to
\* MaxHeaderLen of these characters in one header, beside the values of
\* the API's documentation and some malformed ones in the other two
HeaderChars == {"1", "0", ",", "SP", "x", "-"}

\* the fields of RateLimit, each read from its own header
RateLimitFields == {"Limit", "Remaining", "Reset"}

\* the headers of the API's documentation, no header at all, and headers
\* that are malformed
HeaderTriples ==
    {[Limit |-> <<"1", "0", ",", "SP", "1", "5", "0", "0", "0">>,
      Remaining |-> <<"9", ",", "SP", "1", "4", "9", "9", "9">>,
      Reset |-> <<"1", ",", "SP", "1", "4", "1", "9", "7", "0", "4">>],
     [Limit |-> <<>>, Remaining |-> <<>>, Reset |-> <<>>],
     [Limit |-> <<"SP", "TAB", "+", "7", "SP", ",", "x">>,
      Remaining |-> <<"x">>,
      Reset |-> <<"1", ",", "SP", "1", "4", "1", "9", "7", "0", "4">>],
     [Limit |-> <<"1", "SP", "0", ",", "5">>,
      Remaining |-> <<"-", "2", "5">>,
      Reset |-> <<",", "3">>]}

HeaderInputs ==
    HeaderTriples
    \cup {[t EXCEPT ![f] = v] : t \in HeaderTriples, f \in RateLimitFields,
                                v \in SeqsUpTo(HeaderChars, MaxHeaderLen)}

\* the Config values WithConfig is given
CustomConfig ==
    [ptr |-> "set", APIKey |-> "custom-api-key",
     BaseURL |-> <<"https://custom.example.com">>, HTTPClient |-> "custom",
     Timeout |-> 45, MaxRetries |-> 5, UserAgent |-> "custom-agent",
     DefaultCountry |-> "FR", DefaultSearchLang |-> "fr",
     DefaultUILang |-> "fr-FR"]

\* a Config literal that names the fields in specified, with the values
\* they have in values
ConfigLiteral(specified, values) ==
    [f \in DOMAIN ZeroConfig |->
        IF f \in specified THEN values[f] ELSE ZeroConfig[f]]

OptionInputs ==
    {WithRetries(-1), WithRetries(0), WithRetries(5), WithTimeout(45),
     WithUserAgent("test-agent"), WithBaseURL(<<"https://test.example.com">>),
     WithHTTPClient("custom"), WithDefaultCountry("FR"),
     WithDefaultSearchLanguage("fr"), WithDefaultUILanguage("fr-FR"),
     WithConfig(NilConfig), WithConfig(CustomConfig),
     WithConfig(ConfigLiteral({"APIKey"}, CustomConfig)),
     WithConfig(ConfigLiteral({"MaxRetries", "Timeout"},
                              [CustomConfig EXCEPT !.MaxRetries = -1,
                                                   !.Timeout = -1]))}

\* the drafts applyOptions is given: &ClientConfig{} and NewClient's
ClientConfigInputs ==
    {[f \in ConfigFields |-> ZeroConfig[f]], DefaultConfig("test-api-key")}

NewClientInputs ==
    [apiKey : {"", "test-api-key"}, options : SeqsUpTo(OptionInputs, MaxOptions)]

ApplyOptionsInputs ==
    [config : ClientConfigInputs, options : SeqsUpTo(OptionInputs, MaxOptions)]

\* the calls WithConfig(config)(target): a nil Config, and the Config
\* literals that name any of the fields; target is the test's
\* configuration or NewClient's draft
WithConfigInputs ==
    LET targets == {[[f \in ConfigFields |-> ZeroConfig[f]]
                        EXCEPT !.APIKey = "original-key",
                               !.BaseURL = <<"original-url">>,
                               !.MaxRetries = 1],
                    DefaultConfig("test-api-key")}
        values == {CustomConfig,
                   [CustomConfig EXCEPT !.APIKey = "new-api-key",
                                        !.MaxRetries = 3]}
    IN  {[target |-> t, specified |-> {}, config |-> NilConfig] : t \in targets}
        \cup {[target |-> t, specified |-> sp, config |-> ConfigLiteral(sp, v)] :
                t \in targets, sp \in SUBSET ConfigFields, v \in values}

\* the calls of buildRequestURL: the client's base URL (NewClient's, or
\* one set with WithBaseURL), the endpoint, and resolved parameters
BaseURLInputs ==
    {BaseURL, BaseURL \o <<"/">>, <<"http://localhost:8080">>,
     <<"http://localhost:8080", "/">>, <<>>, <<"/">>}

EndpointInputs ==
    {WebSearchEndpoint, Tail(WebSearchEndpoint), <<"web", "/">>, <<>>, <<"/">>}

BuildRequestURLInputs ==
    [baseURL : BaseURLInputs, endpoint : EndpointInputs,
     params : {ResolveParams(DefaultConfig("test-api-key"), Q(<<"a">>, 1), p) :
                  p \in ParamsInputs}]
    \cup [baseURL : {BaseURL}, endpoint : {WebSearchEndpoint},
          params : ParamsAltered({MinimalParams, AllParams}, MaxFieldsSet)]

\* two calls of buildRequestURL on one client with one endpoint
BuildRequestURLPairs ==
    UNION {[baseURL : {BaseURL}, endpoint : {WebSearchEndpoint}, params : {p1},
            params2 : ParamsAltered({p1}, 1)] :
              p1 \in ParamsAltered({MinimalParams, AllParams}, 1)}

\* the responses the helpers are called on: nil, and every combination of
\* a nil or decoded Web section with a nil or decoded Query section
ResultTitles == {"The Go Programming Language", "Go by Example"}

ResponseInputs ==
    {NilResponse}
    \cup [ptr : {"set"},
          Web : {NilWeb} \cup [ptr : {"set"},
                               Results : SeqsUpTo(ResultTitles, MaxResults)],
          Query : {NilQuery} \cup [ptr : {"set"},
                                   MoreResultsAvailable : BOOLEAN]]

\* the backoffs: a client with maxRetries retries waits after every attempt
\* (from 0) but the last one, which is attempt maxRetries
BackoffInputs ==
    UNION {[maxRetries : {n}, attempt : 0..(n - 1)] : n \in 1..MaxBackoffRetries}

\* a client built with no options, on which no WebSearch call is made
NoWebSearch ==
    /\ options = <<>>
    /\ config = NewClient("test-api-key", <<>>).config
    /\ transport = [honorsCtx |-> TRUE]
    /\ pc = "idle"
    /\ ctxDone = FALSE
    /\ cancelledAt = NotCancelled
    /\ query = EmptyString
    /\ callerParams = NilParams
    /\ callerObject = NilParams
    /\ searchParams = ZeroParams
    /\ requestURL = NoURL
    /\ attempt = 0
    /\ served = <<>>
    /\ openBodies = {}
    /\ closedBodies = {}
    /\ rateLimitOn = {}
    /\ result = NoResult
    /\ parked = IdleCall

LibInit ==
    /\ NoWebSearch
    /\ libRet = <<>>
    /\ libDone = FALSE
    /\ \/ libFn = "NewHTTPError" /\ libArgs \in HTTPErrorInputs
       \/ libFn = "IsError" /\ libArgs \in ErrorInputs
       \/ libFn = "parseRateLimitHeaders" /\ libArgs \in HeaderInputs
       \/ libFn = "NewClient" /\ libArgs \in NewClientInputs
       \/ libFn = "applyOptions" /\ libArgs \in ApplyOptionsInputs
       \/ libFn = "WithConfig" /\ libArgs \in WithConfigInputs
       \/ libFn = "buildRequestURL" /\ libArgs \in BuildRequestURLInputs
       \/ libFn = "buildRequestURL twice" /\ libArgs \in BuildRequestURLPairs
       \/ libFn = "WebSearchResponse helpers" /\ libArgs \in ResponseInputs
       \/ libFn = "backoffTime" /\ libArgs \in BackoffInputs

\* the call of function fn returns ret
LibCall(fn, ret) ==
    /\ libFn = fn
    /\ ~libDone
    /\ libRet' = ret
    /\ libDone' = TRUE
    /\ UNCHANGED <<libFn, libArgs, callVars, parked>>

CallNewHTTPError == LibCall("NewHTTPError", NewHTTPError(libArgs))

\* a caller asks the three helpers about one error
CallIsError ==
    LibCall("IsError", [IsRateLimitError |-> IsRateLimitError(libArgs),
                        IsAuthError |-> IsAuthError(libArgs),
                        IsServerError |-> IsServerError(libArgs)])

CallParseRateLimitHeaders ==
    LibCall("parseRateLimitHeaders", ParseRateLimitHeaders(libArgs))

CallNewClient ==
    LibCall("NewClient", NewClient(libArgs.apiKey, libArgs.options))

CallApplyOptions ==
    LibCall("applyOptions", ApplyOptions(libArgs.config, libArgs.options))

CallWithConfig ==
    LibCall("WithConfig", ApplyOption(libArgs.target, WithConfig(libArgs.config)))

CallBuildRequestURL ==
    LibCall("buildRequestURL",
            BuildRequestURL(NewClient("test-api-key",
                                      <<WithBaseURL(libArgs.baseURL)>>).config,
                            libArgs.endpoint, libArgs.params))

CallBuildRequestURLTwice ==
    LET c == NewClient("test-api-key", <<WithBaseURL(libArgs.baseURL)>>).config
    IN  LibCall("buildRequestURL twice",
                <<BuildRequestURL(c, libArgs.endpoint, libArgs.params),
                  BuildRequestURL(c, libArgs.endpoint, libArgs.params2)>>)

CallResponseHelpers ==
    LibCall("WebSearchResponse helpers",
            [GetWebResults |-> GetWebResults(libArgs),
             HasMoreResults |-> HasMoreResults(libArgs),
             GetResultCount |-> GetResultCount(libArgs),
             GetFirstResult |-> GetFirstResult(libArgs),
             IsWebResultEmpty |-> IsWebResultEmpty(libArgs)])

CallBackoffTime == LibCall("backoffTime", BackoffTime(libArgs.attempt))

LibNext ==
    \/ CallNewHTTPError
    \/ CallIsError
    \/ CallParseRateLimitHeaders
    \/ CallNewClient
    \/ CallApplyOptions
    \/ CallWithConfig
    \/ CallBuildRequestURL
    \/ CallBuildRequestURLTwice
    \/ CallResponseHelpers
    \/ CallBackoffTime

LibSpec == LibInit /\ [][LibNext]_vars

\* function fn has returned
Returned(fn) == libFn = fn /\ libDone

(***************************************************************************)
(* Vocabulary of the properties.                                           *)
(***************************************************************************)
\* the number of HTTP attempts the call has issued
Attempts == Len(served)

\* the number of characters and of whitespace-separated tokens of each query
QueryRunes == [q \in QueryInputs |-> Len(Expand(q))]
QueryTokens == [q \in QueryInputs |-> FieldsLen(Expand(q))]

\* an outcome after which the loop may go on
Retriable(out) == out.err # NoError \/ out.resp.StatusCode >= 500

\* the transport answered with a response and no error
Answered(out, statusCode) ==
    out.err = NoError /\ ~out.resp.nil /\ out.resp.StatusCode = statusCode

\* a 200 whose body decodes: a JSON document, gzip-encoded iff the header says so
Decodable200(out) ==
    /\ Answered(out, 200)
    /\ \/ ~out.resp.gzip /\ out.resp.body = "json"
       \/ out.resp.gzip /\ out.resp.body = "gzip_json"

AllAnswered503 == \A i \in DOMAIN served : Answered(served[i], 503)

\* the context was not cancelled before the k-th attempt was under way
NotCancelledBefore(k) ==
    \/ ~ctxDone
    \/ cancelledAt.pc = "attempt" /\ cancelledAt.attempts >= k - 1

ServerError503 ==
    /\ result.response = "nil"
    /\ result.err.type = "APIError"
    /\ result.err.code = 503
    /\ result.err.err = "ErrServerError"
    /\ IsServerError(result.err)
    /\ ~IsRateLimitError(result.err)

\* the call left the retry loop by its own exits (not by the backoff select)
LoopExited ==
    /\ pc \in {"done", "panicked"}
    /\ served # <<>>
    /\ ~(pc = "done" /\ result.err.type = "ctx")

ReturnedOneOfTwo ==
    \/ result.response # "nil" /\ result.err = NoError
    \/ result.response = "nil" /\ result.err # NoError

(***************************************************************************)
(* C1 (as stated): for every client with maxRetries = N and a transport    *)
(* that answers every attempt with 503, a call that reaches the transport  *)
(* makes exactly N+1 attempts and returns an APIError 503 wrapping         *)
(* ErrServerError (IsServerError, not IsRateLimitError).                   *)
(***************************************************************************)
C1_Always503_AsStated ==
    (pc = "done" /\ served # <<>> /\ AllAnswered503)
        => (Attempts = config.MaxRetries + 1 /\ ServerError503)

(***************************************************************************)
(* C1 (amended): the same, for a call whose context is not cancelled       *)
(* before its last permitted attempt is under way.                         *)
(***************************************************************************)
C1_Always503 ==
    (/\ pc = "done" /\ served # <<>> /\ AllAnswered503
     /\ NotCancelledBefore(config.MaxRetries + 1))
        => (Attempts = config.MaxRetries + 1 /\ ServerError503)

C1_Witness ==
    /\ pc = "done" /\ AllAnswered503
    /\ config.MaxRetries = MaxRetriesBound
    /\ Attempts = MaxRetriesBound + 1
    /\ ServerError503

(***************************************************************************)
(* C2 (as stated): for all client configurations, when the transport fails *)
(* on the first two attempts and answers the third with a decodable 200,   *)
(* the call returns success and exactly 3 attempts occur.  The transport   *)
(* of a behaviour is any transport that agrees with the outcomes served.   *)
(***************************************************************************)
C2_FailTwiceThenOK_AsStated ==
    (/\ pc = "done" /\ Attempts >= 2
     /\ Retriable(served[1]) /\ Retriable(served[2])
     /\ (Attempts >= 3 => Decodable200(served[3])))
        => (Attempts = 3 /\ result.err = NoError /\ result.response # "nil")

(***************************************************************************)
(* C2 (amended): the same for every client with maxRetries >= 2 and a call *)
(* whose context is not cancelled before the third attempt is under way.   *)
(***************************************************************************)
C2_FailTwiceThenOK ==
    (/\ pc = "done" /\ Attempts >= 2
     /\ config.MaxRetries >= 2
     /\ NotCancelledBefore(3)
     /\ Retriable(served[1]) /\ Retriable(served[2])
     /\ (Attempts >= 3 => Decodable200(served[3])))
        => (Attempts = 3 /\ result.err = NoError /\ result.response # "nil")

C2_Witness ==
    /\ pc = "done" /\ Attempts = 3
    /\ served[1].err # NoError /\ Answered(served[2], 503)
    /\ Decodable200(served[3]) /\ served[3].resp.gzip
    /\ result.err = NoError /\ result.response = "decoded"

(***************************************************************************)
(* C3: an empty query returns (nil, ErrEmptyQuery) whatever the params; a  *)
(* query of 401 characters or of 51 whitespace-separated tokens returns    *)
(* (nil, ErrQueryTooLong); no HTTP attempt is issued in either case.       *)
(***************************************************************************)
C3_ValidationFailsFast ==
    /\ (pc # "idle" /\ QueryRunes[query] = 0)
        => /\ pc = "done" /\ Attempts = 0
           /\ result = [response |-> "nil", err |-> ErrEmptyQuery]
    /\ (pc # "idle" /\ (QueryRunes[query] = MaxQueryLen + 1
                         \/ QueryTokens[query] = MaxQueryWords + 1))
        => /\ pc = "done" /\ Attempts = 0
           /\ result = [response |-> "nil", err |-> ErrQueryTooLong]

C3_Witness ==
    /\ pc = "done"
    /\ QueryTokens[query] = MaxQueryWords + 1
    /\ QueryRunes[query] <= MaxQueryLen
    /\ callerParams.ptr # "nil"
    /\ result.err = ErrQueryTooLong /\ Attempts = 0

(***************************************************************************)
(* C4: once the context is cancelled during the wait between two attempts, *)
(* no further HTTP attempt is made and the call returns (nil, ctx.Err()).  *)
(***************************************************************************)
C4_CancelDuringBackoff ==
    cancelledAt.pc = "backoff"
        => /\ Attempts = cancelledAt.attempts
           /\ pc \in {"backoff", "done"}
           /\ pc = "done" => result = [response |-> "nil", err |-> CtxErr]

C4_Witness ==
    /\ cancelledAt.pc = "backoff" /\ pc = "done"
    /\ result.err = CtxErr
    /\ Attempts < config.MaxRetries + 1

(***************************************************************************)
(* C5: every attempt but the last issued one had a transport error or a    *)
(* status >= 500, and an attempt answered without error with a status      *)
(* below 500 ends the loop: the call does not wait or try again.           *)
(***************************************************************************)
C5_StopsAtFirstNonRetriable ==
    /\ \A i \in 1..(Attempts - 1) : Retriable(served[i])
    /\ (served # <<>> /\ ~Retriable(served[Attempts]))
        => pc \in {"done", "panicked"}

C5_Witness ==
    /\ pc = "done" /\ Attempts = 2
    /\ config.MaxRetries >= 2
    /\ Answered(served[1], 503) /\ Answered(served[2], 429)
    /\ IsRateLimitError(result.err)

(***************************************************************************)
(* C6: a call that enters makeRequest issues at least one and at most      *)
(* maxRetries+1 attempts (at most 3 on a client built with no options),    *)
(* and when it has ended it has returned a response or an error.           *)
(***************************************************************************)
C6_BoundedAttemptsAndReturns ==
    (pc # "idle" /\ ValidateQuery(query) = NoError)
        => /\ Attempts <= config.MaxRetries + 1
           /\ options = <<>> => Attempts <= 3
           /\ pc \notin {"attempt", "backoff"}
                => (pc = "done" /\ Attempts >= 1 /\ ReturnedOneOfTwo)

(***************************************************************************)
(* C7: when the last permitted attempt is retriable, the call returns that *)
(* attempt's transport error unchanged if it had one, and otherwise the    *)
(* APIError of that attempt's status; never the error of an earlier one.   *)
(***************************************************************************)
C7_LastAttemptError ==
    (/\ pc = "done" /\ Attempts = config.MaxRetries + 1
     /\ Retriable(served[Attempts]))
        => LET last == served[Attempts]
           IN  /\ result.response = "nil"
               /\ last.err # NoError
                    => /\ result.err = last.err
                       /\ result.err.type = "transport"
                       /\ result.err.attempt = Attempts
               /\ last.err = NoError
                    => /\ result.err.type = "APIError"
                       /\ result.err.code = last.resp.StatusCode
                       /\ result.err.err = "ErrServerError"

C7_Witness ==
    /\ pc = "done" /\ Attempts = config.MaxRetries + 1 /\ Attempts >= 2
    /\ Answered(served[1], 503)
    /\ served[Attempts].err # NoError /\ ~served[Attempts].resp.nil
    /\ result.err = served[Attempts].err

(***************************************************************************)
(* C8: when the call has returned, every response body it obtained has     *)
(* been closed and none is open.                                           *)
(***************************************************************************)
C8_BodiesClosedAtReturn ==
    pc = "done"
        => /\ openBodies = {}
           /\ \A i \in DOMAIN served : ~served[i].resp.nil => i \in closedBodies

(***************************************************************************)
(* C9: whenever the response that ended the retry loop has a status other  *)
(* than 200, the call returns an APIError with that status code and the    *)
(* kind mapped from it, whatever the Content-Encoding and the body.        *)
(***************************************************************************)
C9_Non200IsAPIError ==
    (/\ LoopExited
     /\ served[Attempts].err = NoError
     /\ served[Attempts].resp.StatusCode # 200)
        => /\ pc = "done"
           /\ result.response = "nil"
           /\ result.err.type = "APIError"
           /\ result.err.code = served[Attempts].resp.StatusCode
           /\ result.err.err = NewHTTPErrorKind(served[Attempts].resp.StatusCode)

(***************************************************************************)
(* C10: the call never panics, and a call that has returned has returned   *)
(* exactly one of a response and an error.                                 *)
(***************************************************************************)
C10_NeverPanics ==
    /\ pc # "panicked"
    /\ pc = "done" => ReturnedOneOfTwo

(***************************************************************************)
(* C11: NewHTTPError maps every status code to exactly one kind: 401 to    *)
(* ErrUnauthorized, 403 to ErrForbidden, 404 to ErrNotFound, 429 to        *)
(* ErrRateLimit, every status >= 500 to ErrServerError and every other     *)
(* status to the "unexpected status code" error; the APIError carries the  *)
(* response's status code, and its status line as message.                 *)
(***************************************************************************)
C11_StatusToKind ==
    Returned("NewHTTPError")
        => LET sc == libArgs.StatusCode
               e == libRet
           IN  /\ e.type = "APIError"
               /\ e.code = sc
               /\ e.msg = libArgs.Status
               /\ sc = 401 => e.err = "ErrUnauthorized"
               /\ sc = 403 => e.err = "ErrForbidden"
               /\ sc = 404 => e.err = "ErrNotFound"
               /\ sc = 429 => e.err = "ErrRateLimit"
               /\ sc >= 500 => e.err = "ErrServerError"
               /\ (sc < 500 /\ sc \notin {401, 403, 404, 429})
                    => e.err = "unexpected status code"

C11_Witness ==
    /\ Returned("NewHTTPError")
    /\ libArgs.StatusCode = 500
    /\ libArgs.Status = "Custom Reason"
    /\ libRet = APIError(500, "Custom Reason", "ErrServerError")

(***************************************************************************)
(* C12: the error made from a final status 401 satisfies IsAuthError and   *)
(* not IsRateLimitError; the one made from 429 satisfies IsRateLimitError  *)
(* and neither IsAuthError nor IsServerError; of the error made from any   *)
(* one status code at most one of the three helpers is true; and each      *)
(* helper is true of an APIError whose status code matches (429, 401,      *)
(* >= 500), whatever kind it wraps.                                        *)
(***************************************************************************)
C12_HelpersClassify ==
    Returned("IsError")
        => LET e == libArgs
               rate == libRet.IsRateLimitError
               auth == libRet.IsAuthError
               server == libRet.IsServerError
               \* e is what NewHTTPError makes from a response
               fromStatus == /\ e.type = "APIError"
                             /\ e.err = NewHTTPErrorKind(e.code)
           IN  /\ (fromStatus /\ e.code = 401) => (auth /\ ~rate)
               /\ (fromStatus /\ e.code = 429) => (rate /\ ~auth /\ ~server)
               /\ fromStatus => Cardinality({b \in {<<1, rate>>, <<2, auth>>,
                                                     <<3, server>>} : b[2]}) <= 1
               /\ (e.type = "APIError" /\ e.code = 429) => rate
               /\ (e.type = "APIError" /\ e.code = 401) => auth
               /\ (e.type = "APIError" /\ e.code >= 500) => server

C12_Witness ==
    /\ Returned("IsError")
    /\ libArgs = APIError(401, StatusLine(401), "ErrInvalidResponse")
    /\ libRet.IsAuthError

\* the response that ended the retry loop, a 200
Final200 ==
    /\ LoopExited
    /\ served[Attempts].err = NoError
    /\ served[Attempts].resp.StatusCode = 200

\* the body's bytes can be read to their end, through gzip when the header
\* says so
BodyReadable(resp) == resp.gzip => resp.body \in {"gzip_json", "gzip_garbage"}

\* the bytes read are a JSON document of the response type
BodyIsDocument(resp) ==
    IF resp.gzip THEN resp.body = "gzip_json" ELSE resp.body = "json"

InvalidResponse200 ==
    /\ pc = "done"
    /\ result.response = "nil"
    /\ result.err = APIError(200, "Failed to parse response", "ErrInvalidResponse")

C14_RateLimitOnFinal_AsStated ==
    /\ \A i \in rateLimitOn : i = Attempts /\ pc # "attempt" /\ pc # "backoff"
    /\ (LoopExited /\ ~served[Attempts].resp.nil) => rateLimitOn = {Attempts}

(***************************************************************************)
(* C14 (amended): the rate-limit headers are parsed on the final response  *)
(* exactly when it was received without transport error with status 200    *)
(* (before its body is decoded); they are never parsed on a final response *)
(* of another status nor on the response of a non-final attempt.           *)
(***************************************************************************)
C14_RateLimitOnFinal200 ==
    /\ \A i \in rateLimitOn : i = Attempts /\ pc # "attempt" /\ pc # "backoff"
    /\ Final200 => rateLimitOn = {Attempts}
    /\ ~Final200 => rateLimitOn = {}

C14_Witness ==
    /\ Final200 /\ Attempts = 2
    /\ Answered(served[1], 503)
    /\ rateLimitOn = {2}
    /\ result.err.type = "wrapped"

\* the first comma-delimited token of a header value, without the white
\* space around it
FirstToken(value) ==
    LET commas == {i \in DOMAIN value : value[i] = ","}
        before == {i \in DOMAIN value : \A j \in commas : i < j}
        solid == {i \in before : ~IsSpace(value[i])}
    IN  IF solid = {} THEN <<>>
        ELSE SubSeq(value, CHOOSE i \in solid : \A j \in solid : i <= j,
                           CHOOSE i \in solid : \A j \in solid : i >= j)

Unsigned(token) ==
    IF token # <<>> /\ token[1] \in {"+", "-"} THEN Tail(token) ELSE token

\* the token is the decimal notation of an integer
IsInteger(token) ==
    /\ Unsigned(token) # <<>>
    /\ \A i \in DOMAIN Unsigned(token) : IsDigit(Unsigned(token)[i])

RECURSIVE Pow10(_)
Pow10(k) == IF k = 0 THEN 1 ELSE 10 * Pow10(k - 1)

RECURSIVE PlaceValues(_, _)
PlaceValues(digits, i) ==
    IF i > Len(digits) THEN 0
    ELSE DigitVal(digits[i]) * Pow10(Len(digits) - i) + PlaceValues(digits, i + 1)

IntegerValue(token) ==
    IF token[1] = "-" THEN 0 - PlaceValues(Unsigned(token), 1)
    ELSE PlaceValues(Unsigned(token), 1)

(***************************************************************************)
(* C15: parseRateLimitHeaders sets each of Limit, Remaining and Reset to   *)
(* the integer value of the first comma-delimited token, trimmed of white  *)
(* space, of its own header; a header that is absent or whose first token  *)
(* is not an integer leaves its field at zero, whatever the other two      *)
(* headers are; "10, 15000", "9, 14999", "1, 1419704" give {10, 9, 1}.     *)
(***************************************************************************)
C15_FirstTokenOfEachHeader ==
    Returned("parseRateLimitHeaders")
        => /\ \A f \in RateLimitFields :
                libRet[f] = IF IsInteger(FirstToken(libArgs[f]))
                            THEN IntegerValue(FirstToken(libArgs[f]))
                            ELSE 0
           /\ libArgs = [Limit |-> <<"1", "0", ",", "SP", "1", "5", "0", "0", "0">>,
                         Remaining |-> <<"9", ",", "SP", "1", "4", "9", "9", "9">>,
                         Reset |-> <<"1", ",", "SP", "1", "4", "1", "9", "7", "0", "4">>]
                => libRet = [Limit |-> 10, Remaining |-> 9, Reset |-> 1]

C15_Witness ==
    /\ Returned("parseRateLimitHeaders")
    /\ libArgs.Limit = <<"SP", "TAB", "+", "7", "SP", ",", "x">>
    /\ libArgs.Remaining = <<"x">>
    /\ libArgs.Reset = <<"1", ",", "SP", "1", "4", "1", "9", "7", "0", "4">>
    /\ libRet = [Limit |-> 7, Remaining |-> 0, Reset |-> 1]

(***************************************************************************)
(* C16: NewClient with an empty API key returns (nil, ErrMissingAPIKey)    *)
(* and invokes no option function, whatever the option list: also when an  *)
(* option would fail or carries a non-empty key through WithConfig.        *)
(***************************************************************************)
C16_EmptyKeyFirst ==
    (Returned("NewClient") /\ libArgs.apiKey = "")
        => /\ ~libRet.ok
           /\ libRet.err = ErrMissingAPIKey
           /\ libRet.invoked = <<>>

C16_Witness ==
    /\ Returned("NewClient")
    /\ libArgs.apiKey = ""
    /\ libArgs.options = <<WithConfig(CustomConfig), WithRetries(-1)>>
    /\ ~libRet.ok /\ libRet.err = ErrMissingAPIKey

\* the option reports an invalid value
Fails(opt) == opt.name = "WithRetries" /\ opt.int < 0

\* the position of the first option of opts that fails, Len(opts) + 1 if
\* none does
FirstFailing(opts) ==
    CHOOSE k \in 1..(Len(opts) + 1) :
        /\ \A i \in 1..(k - 1) : ~Fails(opts[i])
        /\ k <= Len(opts) => Fails(opts[k])

\* the draft after the first n options of opts have acted on it, one after
\* the other
RECURSIVE DraftAfter(_, _, _)
DraftAfter(draft, opts, n) ==
    IF n = 0 THEN draft
    ELSE ApplyOption(DraftAfter(draft, opts, n - 1), opts[n]).config

\* what applyOptions (ret) has done with the list opts on the draft
AppliedInOrder(draft, opts, ret) ==
    LET k == FirstFailing(opts)
    IN  /\ ret.err = IF k <= Len(opts) THEN ErrInvalidParameters ELSE NoError
        /\ ret.invoked = SubSeq(opts, 1, IF k <= Len(opts) THEN k ELSE Len(opts))
        /\ ret.config = DraftAfter(draft, opts, k - 1)

(***************************************************************************)
(* C17: the options are applied to the draft configuration in the order    *)
(* supplied; the first option that returns an error stops the chain, that  *)
(* error is returned (and NewClient returns no client), the effect of      *)
(* every earlier option is on the draft and no later option is applied.    *)
(***************************************************************************)
C17_OptionsInOrder ==
    /\ Returned("applyOptions")
        => AppliedInOrder(libArgs.config, libArgs.options, libRet)
    /\ (Returned("NewClient") /\ libArgs.apiKey # "")
        => /\ AppliedInOrder(DefaultConfig(libArgs.apiKey), libArgs.options, libRet)
           /\ libRet.ok <=> libRet.err = NoError

C17_Witness ==
    /\ Returned("applyOptions")
    /\ libArgs.options = <<WithTimeout(45), WithRetries(-1), WithUserAgent("test-agent")>>
    /\ libArgs.config.UserAgent = ""
    /\ libRet.err = ErrInvalidParameters
    /\ libRet.config.Timeout = 45
    /\ libRet.config.UserAgent = ""
    /\ Len(libRet.invoked) = 2

(***************************************************************************)
(* C18: every client NewClient returns, whatever the options, their order  *)
(* and their arguments, has a configuration with a non-empty APIKey and    *)
(* MaxRetries >= 0.                                                        *)
(***************************************************************************)
C18_KeyAndRetriesValid ==
    (Returned("NewClient") /\ libRet.ok)
        => /\ libRet.config.APIKey # ""
           /\ libRet.config.MaxRetries >= 0

C18_Witness ==
    /\ Returned("NewClient") /\ libRet.ok
    /\ libArgs.options =
          <<WithRetries(5),
            WithConfig(ConfigLiteral({"MaxRetries", "Timeout"},
                                     [CustomConfig EXCEPT !.MaxRetries = -1,
                                                          !.Timeout = -1]))>>
    /\ libRet.config.APIKey = "test-api-key"
    /\ libRet.config.MaxRetries = 5

(***************************************************************************)
(* C19: WithConfig(cfg) with a partial Config updates only the fields the  *)
(* caller specified in cfg and leaves every other field of the target      *)
(* ClientConfig unchanged, MaxRetries included when the caller did not     *)
(* specify it; WithConfig(nil) changes nothing and returns no error.       *)
(***************************************************************************)
C19_WithConfigFrame ==
    Returned("WithConfig")
        => /\ libRet.err = NoError
           /\ libArgs.config.ptr = "nil" => libRet.config = libArgs.target
           /\ \A f \in ConfigFields \ libArgs.specified :
                libRet.config[f] = libArgs.target[f]
           /\ libArgs.config.ptr # "nil"
                => \A f \in libArgs.specified :
                        libRet.config[f] = libArgs.config[f]

\* s without the "/" it ends with, if it ends with one
WithoutSlashSuffix(s) ==
    IF Len(s) > 0 /\ s[Len(s)] = "/" THEN SubSeq(s, 1, Len(s) - 1) ELSE s

\* s without the "/" it starts with, if it starts with one
WithoutSlashPrefix(s) == IF Len(s) > 0 /\ s[1] = "/" THEN Tail(s) ELSE s

(***************************************************************************)
(* C20: for every base URL and endpoint path, whether or not the base URL  *)
(* ends with "/" and whether or not the endpoint starts with "/", the      *)
(* built request URL joins them with exactly one "/".                      *)
(***************************************************************************)
C20_ExactlyOneSlash ==
    Returned("buildRequestURL")
        => libRet.path = WithoutSlashSuffix(libArgs.baseURL) \o <<"/">>
                         \o WithoutSlashPrefix(libArgs.endpoint)

(***************************************************************************)
(* Reading a built URL back.                                               *)
(***************************************************************************)
\* url.QueryUnescape: the characters that the wire tokens stand for
RECURSIVE UnescapeTokens(_)
UnescapeTokens(s) ==
    IF s = <<>> THEN <<>>
    ELSE LET h == Head(s)
             Rest(k) == UnescapeTokens(SubSeq(s, k + 1, Len(s)))
             Next2 == IF Len(s) >= 2 THEN s[2] ELSE ""
             Next3 == IF Len(s) >= 3 THEN s[3] ELSE ""
         IN  CASE h = "+" -> <<"SP">> \o Rest(1)
               [] h = "%09" -> <<"TAB">> \o Rest(1)
               [] h = "%3A" -> <<":">> \o Rest(1)
               [] h = "%2F" -> <<"/">> \o Rest(1)
               [] h = "%2B" -> <<"+">> \o Rest(1)
               [] h = "%C3" /\ Next2 = "%A9" -> <<"e_acute">> \o Rest(2)
               [] h = "%E4" /\ Next2 = "%B8" /\ Next3 = "%96" ->
                     <<"U+4E16">> \o Rest(3)
               [] h = "%E3" /\ Next2 = "%80" /\ Next3 = "%80" ->
                     <<"U+3000">> \o Rest(3)
               [] OTHER -> <<h>> \o Rest(1)

Unescape(v) == Q(UnescapeTokens(v.pat), v.n)

\* the pairs of the query string written under a key
PairsOf(url, key) == SelectSeq(url.values, LAMBDA kv : kv.key = key)

Absent(url, key) == Len(PairsOf(url, key)) = 0

\* the key is written exactly once, and its value reads back as text
WrittenOnce(url, key, text) ==
    /\ Len(PairsOf(url, key)) = 1
    /\ Unescape(PairsOf(url, key)[1].val) = text

OnWireIff(url, key, present, text) ==
    IF present THEN WrittenOnce(url, key, text) ELSE Absent(url, key)

\* the text of a string field, of an integer field and of a flag
OfString(str) == Q(Text(str), 1)
OfInt(n) == Q(<<Itoa(n)>>, 1)
OfBool(b) == Q(<<FormatBool(b)>>, 1)

\* what the query string says of every field but count and offset
FlagsAndTextsOnWire(url, params) ==
    /\ WrittenOnce(url, "text_decorations", OfBool(params.TextDecorations))
    /\ WrittenOnce(url, "spellcheck", OfBool(params.Spellcheck))
    /\ OnWireIff(url, "extra_snippets", params.ExtraSnippets, OfBool(TRUE))
    /\ OnWireIff(url, "summary", params.Summary, OfBool(TRUE))
    /\ OnWireIff(url, "q", params.Query.n # 0, params.Query)
    /\ OnWireIff(url, "country", params.Country # "", OfString(params.Country))
    /\ OnWireIff(url, "search_lang", params.SearchLang # "",
                 OfString(params.SearchLang))
    /\ OnWireIff(url, "ui_lang", params.UILang # "", OfString(params.UILang))
    /\ OnWireIff(url, "safesearch", params.SafeSearch # "",
                 OfString(params.SafeSearch))
    /\ OnWireIff(url, "freshness", params.Freshness # "",
                 OfString(params.Freshness))
    /\ OnWireIff(url, "result_filter", params.ResultFilter # "",
                 OfString(params.ResultFilter))
    /\ OnWireIff(url, "goggles", params.Goggles # "", OfString(params.Goggles))
    /\ OnWireIff(url, "units", params.Units # "", OfString(params.Units))

(***************************************************************************)
(* C21.  In every built request URL text_decorations and spellcheck are    *)
(* written exactly once with the parameter's value, extra_snippets and     *)
(* summary are written (as "true") exactly when the flag is true, and      *)
(* every other key is written exactly when its field is non-empty, count   *)
(* and offset exactly when the field is greater than zero, under its wire  *)
(* name with the field's literal value.                                    *)
(***************************************************************************)
C21_KeysOnWire ==
    Returned("buildRequestURL") =>
        /\ FlagsAndTextsOnWire(libRet, libArgs.params)
        /\ OnWireIff(libRet, "count", libArgs.params.Count > 0,
                     OfInt(libArgs.params.Count))
        /\ OnWireIff(libRet, "offset", libArgs.params.Offset > 0,
                     OfInt(libArgs.params.Offset))

\* a URL is built from parameters with a negative count, a zero offset and
\* a goggles value with a space
C21_Witness ==
    /\ Returned("buildRequestURL")
    /\ libArgs.params.Count < 0
    /\ libArgs.params.Offset = 0
    /\ libArgs.params.Goggles = "a b"

\* C21 as stated: count and offset are written exactly when non-zero
C21_KeysOnWire_AsStated ==
    Returned("buildRequestURL") =>
        /\ FlagsAndTextsOnWire(libRet, libArgs.params)
        /\ OnWireIff(libRet, "count", libArgs.params.Count # 0,
                     OfInt(libArgs.params.Count))
        /\ OnWireIff(libRet, "offset", libArgs.params.Offset # 0,
                     OfInt(libArgs.params.Offset))

(***************************************************************************)
(* C22.  URL building is injective on parameter sets whose count and       *)
(* offset are not negative: two such WebSearchParams values that differ in *)
(* any field give different request URLs for one base URL and endpoint.    *)
(***************************************************************************)
CountAndOffsetNotNegative(params) == params.Count >= 0 /\ params.Offset >= 0

C22_Injective ==
    Returned("buildRequestURL twice") =>
        (/\ CountAndOffsetNotNegative(libArgs.params)
         /\ CountAndOffsetNotNegative(libArgs.params2)
         /\ libArgs.params # libArgs.params2
         => libRet[1] # libRet[2])

\* two URLs are built from parameters that differ only in the goggles
\* value, "a b" and "a+b"
C22_Witness ==
    /\ Returned("buildRequestURL twice")
    /\ libArgs.params.Goggles = "a b"
    /\ libArgs.params2.Goggles = "a+b"
    /\ CountAndOffsetNotNegative(libArgs.params)
    /\ libRet[1] # libRet[2]

\* C22 as stated: any two different parameter values
C22_Injective_AsStated ==
    Returned("buildRequestURL twice") =>
        (libArgs.params # libArgs.params2 => libRet[1] # libRet[2])

(***************************************************************************)
(* C23.  Before the request is built every optional field the caller left  *)
(* unset is filled: country, search language and UI language from the      *)
(* client's configured defaults, count with 20 and safe-search with        *)
(* "moderate"; a value the caller set is not overridden, and the filled    *)
(* values are the ones sent on the wire.                                   *)
(***************************************************************************)
\* the parameters the caller handed over, the empty ones for nil
GivenParams == IF callerParams.ptr = "nil" THEN ZeroParams ELSE callerParams

RequestBuilt == pc # "idle" /\ requestURL # NoURL

\* a string field: unset means filled with def and so written, set means kept
StringFilled(given, resolved, def, key) ==
    IF given = ""
    THEN resolved = def /\ OnWireIff(requestURL, key, def # "", OfString(def))
    ELSE resolved = given

C23_UnsetFieldsFilled ==
    RequestBuilt =>
        /\ StringFilled(GivenParams.Country, searchParams.Country,
                        config.DefaultCountry, "country")
        /\ StringFilled(GivenParams.SearchLang, searchParams.SearchLang,
                        config.DefaultSearchLang, "search_lang")
        /\ StringFilled(GivenParams.UILang, searchParams.UILang,
                        config.DefaultUILang, "ui_lang")
        /\ StringFilled(GivenParams.SafeSearch, searchParams.SafeSearch,
                        "moderate", "safesearch")
        /\ IF GivenParams.Count = 0
           THEN /\ searchParams.Count = 20
                /\ WrittenOnce(requestURL, "count", OfInt(20))
           ELSE searchParams.Count = GivenParams.Count

\* a request is built on a client whose default country is "FR" for a
\* caller who set the safe-search level and nothing else
C23_Witness ==
    /\ RequestBuilt
    /\ config.DefaultCountry = "FR"
    /\ GivenParams.Country = ""
    /\ GivenParams.Count = 0
    /\ GivenParams.SafeSearch = "strict"
    /\ WrittenOnce(requestURL, "country", OfString("FR"))

(***************************************************************************)
(* C24.  WebSearch accepts (rejects with neither ErrQueryTooLong nor       *)
(* ErrEmptyQuery) every query of 1 to 400 characters with at most 50       *)
(* whitespace-separated tokens, whatever the byte width of its characters, *)
(* and rejects with ErrQueryTooLong exactly the queries of more than 400   *)
(* characters or more than 50 tokens.                                      *)
(***************************************************************************)
TooLongInCharacters ==
    QueryRunes[query] > MaxQueryLen \/ QueryTokens[query] > MaxQueryWords

C24_LengthInCharacters ==
    pc # "idle" =>
        /\ (result.err = ErrQueryTooLong) <=> TooLongInCharacters
        /\ (QueryRunes[query] >= 1 /\ ~TooLongInCharacters)
              => result.err \notin {ErrQueryTooLong, ErrEmptyQuery}

(***************************************************************************)
(* C25.  The WebSearchResponse helpers are total and agree with each other *)
(* on every response, a nil response and one with a nil Web or a nil Query *)
(* included: GetResultCount() is the length of GetWebResults();            *)
(* IsWebResultEmpty() is true iff GetResultCount() = 0 iff                 *)
(* GetFirstResult() is nil; a non-nil GetFirstResult() is the element at   *)
(* index 0; HasMoreResults() is false when the response or its Query       *)
(* section is nil.                                                         *)
(***************************************************************************)
C25_HelpersAgree ==
    Returned("WebSearchResponse helpers") =>
        /\ libRet.GetResultCount = Len(libRet.GetWebResults)
        /\ libRet.IsWebResultEmpty <=> (libRet.GetResultCount = 0)
        /\ (libRet.GetResultCount = 0) <=> (libRet.GetFirstResult.ptr = "nil")
        /\ libRet.GetFirstResult.ptr # "nil"
              => /\ libRet.GetFirstResult.index = 0
                 /\ libRet.GetFirstResult.elem = libRet.GetWebResults[1]
        /\ (libArgs.ptr = "nil" \/ libArgs.Query.ptr = "nil")
              => ~libRet.HasMoreResults

\* the helpers have answered on a response whose Web section is decoded
\* with no results and whose Query section is nil
C25_Witness ==
    /\ Returned("WebSearchResponse helpers")
    /\ libArgs.ptr # "nil"
    /\ libArgs.Web.ptr # "nil"
    /\ libArgs.Web.Results = <<>>
    /\ libArgs.Query.ptr = "nil"
    /\ libRet.IsWebResultEmpty

(***************************************************************************)
(* C26.  No step of a WebSearch call writes the client's configuration or  *)
(* other state shared between calls: under every interleaving of two calls *)
(* on one client the configuration equals its value at construction, and   *)
(* the attempt counter, the resolved parameters and the result of a call   *)
(* depend on its own arguments, its own transport answers and its own      *)
(* cancellation only: two calls that agree on these and have ended agree   *)
(* on their attempts, resolved parameters and results.                     *)
(***************************************************************************)
Ended(call) == call.pc \in {"done", "panicked"}

SameInputs(c1, c2) ==
    /\ c1.query = c2.query
    /\ c1.callerParams = c2.callerParams
    /\ c1.served = c2.served
    /\ c1.cancelledAt = c2.cancelledAt

C26_CallsIndependent ==
    /\ config = NewClient("test-api-key", options).config
    /\ (Ended(RunningCall) /\ Ended(parked) /\ SameInputs(RunningCall, parked))
          => /\ RunningCall.attempt = parked.attempt
             /\ RunningCall.searchParams = parked.searchParams
             /\ RunningCall.requestURL = parked.requestURL
             /\ RunningCall.result = parked.result

\* both calls have ended after two attempts each, on the same arguments
\* and the same answers
C26_Witness ==
    /\ Ended(RunningCall) /\ Ended(parked)
    /\ SameInputs(RunningCall, parked)
    /\ Len(served) = 2
    /\ callerParams = AllParams

(***************************************************************************)
(* C27.  WebSearch works on a copy of the caller's params: after the call  *)
(* has returned, with success or with an error, the caller's               *)
(* WebSearchParams object is unchanged in every field, what is sent as q   *)
(* is the query argument and not params.Query, and a call with nil params  *)
(* does what a call with an empty params value does.                       *)
(***************************************************************************)
HasReturned(call) == call.pc = "done"

ParamsUntouched(call) ==
    HasReturned(call) => call.callerObject = call.callerParams

QueryArgumentSent(call) ==
    (HasReturned(call) /\ call.requestURL # NoURL)
        => WrittenOnce(call.requestURL, "q", call.query)

\* the two calls differ at most in their params argument
SameButParams(c1, c2) ==
    /\ c1.query = c2.query
    /\ c1.served = c2.served
    /\ c1.cancelledAt = c2.cancelledAt

SameOutcome(c1, c2) ==
    /\ c1.attempt = c2.attempt
    /\ c1.searchParams = c2.searchParams
    /\ c1.requestURL = c2.requestURL
    /\ c1.result = c2.result

C27_WorksOnCopy ==
    /\ ParamsUntouched(RunningCall) /\ ParamsUntouched(parked)
    /\ QueryArgumentSent(RunningCall) /\ QueryArgumentSent(parked)
    /\ (/\ HasReturned(RunningCall) /\ HasReturned(parked)
        /\ SameButParams(RunningCall, parked)
        /\ callerParams = NilParams /\ parked.callerParams = ZeroParams)
          => SameOutcome(RunningCall, parked)

\* a call with nil params and a call with empty params, whose Query field
\* is not the query argument, have both returned a response
C27_Witness ==
    /\ HasReturned(RunningCall) /\ HasReturned(parked)
    /\ SameButParams(RunningCall, parked)
    /\ callerParams = NilParams /\ parked.callerParams = ZeroParams
    /\ parked.callerParams.Query # parked.query
    /\ result.err = NoError
    /\ WrittenOnce(requestURL, "q", query)

(***************************************************************************)
(* C28.  After a retriable attempt with index i (from 0) that is not the   *)
(* last permitted one, the body of its response is closed first and then   *)
(* the call waits 100ms * 2^i before attempt i+1 (100ms, 200ms, 400ms,     *)
(* ...); the wait is positive and doubles for every attempt index that the *)
(* configured maxRetries allows, and attempt i+1 does not start before the *)
(* wait has elapsed.                                                       *)
(***************************************************************************)
\* the bits of the number 100ms * 2^i of nanoseconds, of whatever size
HundredMillisecondsTimes2To(i) == {b + i : b \in BitsOf(100000000)}

IsPositive64(x) == x # {} /\ 63 \notin x

C28_BackoffDoubles ==
    Returned("backoffTime") =>
        /\ libRet = HundredMillisecondsTimes2To(libArgs.attempt)
        /\ IsPositive64(libRet)
        /\ libArgs.attempt > 0
              => libRet = {b + 1 : b \in BackoffTime(libArgs.attempt - 1)}

(***************************************************************************)
(* C29.  If the caller's context is already cancelled when WebSearch is    *)
(* invoked with a valid query, the call issues at most one HTTP attempt,   *)
(* for every value of maxRetries, and never enters a second attempt or     *)
(* completes a backoff wait; it returns a non-nil error when the transport *)
(* fails an attempt made under a cancelled context.                        *)
(***************************************************************************)
CancelledAtEntry == cancelledAt.pc = "idle" /\ RequestBuilt

C29_CancelledAtEntry ==
    CancelledAtEntry =>
        /\ Attempts <= 1
        /\ attempt = 0
        /\ transport.honorsCtx
              => /\ pc # "panicked"
                 /\ pc = "done" => (result.response = "nil" /\ result.err # NoError)

\* a call with two retries left, entered under a cancelled context, has
\* returned the context's error after one attempt
C29_Witness ==
    /\ CancelledAtEntry
    /\ transport.honorsCtx
    /\ config.MaxRetries = 2
    /\ pc = "done"
    /\ Attempts = 1
    /\ result.err = CtxErr

\* C29 as stated: a non-nil error whatever the transport does
C29_CancelledAtEntry_AsStated ==
    CancelledAtEntry =>
        /\ Attempts <= 1
        /\ attempt = 0
        /\ pc = "done" => result.err # NoError

(***************************************************************************)
(* C30.  A WebSearch call with nil params sends the same query-string      *)
(* parameters as a call with NewWebSearchParams() for the same query and   *)
(* client: the library defaults DefaultTextDecor = true and                *)
(* DefaultSpellCheck = true are what is sent for text_decorations and      *)
(* spellcheck when the caller supplies no params.                          *)
(***************************************************************************)
C30_NilSendsDefaults ==
    (/\ requestURL # NoURL /\ parked.requestURL # NoURL
     /\ query = parked.query
     /\ callerParams = NilParams
     /\ parked.callerParams = NewWebSearchParams)
        => /\ requestURL.values = parked.requestURL.values
           /\ WrittenOnce(requestURL, "text_decorations", OfBool(DefaultTextDecor))
           /\ WrittenOnce(requestURL, "spellcheck", OfBool(DefaultSpellCheck))

====
